---- MODULE Spec2Model ----
(***************************************************************************)
(* Request authorization pipeline of the interactive Slack app starter     *)
(* kit, in its three entry points:                                         *)
(*   "sm"     the RequestValidator state machine (lib/app-stack.ts) fed by *)
(*            the slack-auth function (lib/app-stack.slack-auth.ts);       *)
(*   "inline" the handler that verifies the request itself                 *)
(*            (unnamed/part_001, first file);                              *)
(*   "bolt"   the Bolt middleware (unnamed/part_001, second file).         *)
(* One request is followed from reception to its outcome; every await of   *)
(* the handlers and every state of the state machine is one action.        *)
(*                                                                         *)
(* Strings that the code inspects by prefix or splits (action names) are   *)
(* sequences of chunks; HMAC-SHA256 is a symbolic injective digest.        *)
(***************************************************************************)
EXTENDS Integers, Sequences, FiniteSets, TLC

VARIABLES
    pc,              \* position of the request in its entry point
    event,           \* the inbound request: entry point, headers, body
    nowMs,           \* Date.now() at verification time
    verifyResult,    \* outcome of signature verification ("" before it ran)
    requestDetails,  \* the normalized request (parseRequest)
    getParameterResult, \* channel ID parameter as read ("" before the read)
    getUserResult,   \* permission record as read
    trace,           \* the checks passed so far, in order
    failedAt,        \* the check that ended the pipeline, or "none"
    ssmReads,        \* reads of the channel ID parameter for this request
    ddbReads,        \* reads of the permission store for this request
    dispatched,      \* request handed to command processing
    response,        \* what the entry point answers or how it ends
    posts,           \* ephemeral messages posted to the response URL
    triggered,       \* the handlers that the dispatch of the request started
    errorLog,        \* errors that the handling of the request reported
    run,             \* the run of a submitted job: its steps, transport calls and end
    proc,            \* a process of a Bolt handler: its module variables and invocations
    racing,          \* a second run, of a submit that races with the first
    rendered,        \* the status documents rendered so far, oldest first
    transport        \* the invocations of the https-client function, oldest first

vars == <<pc, event, nowMs, verifyResult, requestDetails, getParameterResult,
          getUserResult, trace, failedAt, ssmReads, ddbReads, dispatched,
          response, posts,
          triggered, errorLog, run, proc, racing, rendered, transport>>

----------------------------------------------------------------------------
(* Bounds of the model *)

BaseNowMs == 1000000      \* earliest verification time, in milliseconds
MaxSkew == 1              \* request timestamps lie within MaxSkew s of the staleness threshold

----------------------------------------------------------------------------
(* Strings *)

\* String.prototype.startsWith
startsWith(s, p) == Len(p) <= Len(s) /\ SubSeq(s, 1, Len(p)) = p

RECURSIVE FirstSlash(_, _)
FirstSlash(s, i) ==
    IF i > Len(s) THEN Len(s) + 1
    ELSE IF s[i] = "/" THEN i ELSE FirstSlash(s, i + 1)

\* an action base that keeps the whole action
actionBaseOf_whole(s) == s

\* action_id.split('/')[0]
actionBaseOf(s) == SubSeq(s, 1, FirstSlash(s, 1) - 1)

WELCOME == <<"welcome">>
SAMPLE_LAMBDA == <<"sample", "-lambda">>
SAMPLE_LAMBDA_SUBMIT == <<"sample", "-lambda", "/", "submit">>
SAMPLE_SM == <<"sample", "-sm">>
SAMPLE_SM_SUBMIT == <<"sample", "-sm", "/", "submit">>
SAMPLE_SFN == <<"sample", "-sfn">>
SAMPLE_SFN_SUBMIT == <<"sample", "-sfn", "/", "submit">>
OTHER_SUBMIT == <<"other", "/", "submit">>

ActionIds == {SAMPLE_LAMBDA, SAMPLE_LAMBDA_SUBMIT, SAMPLE_SM, SAMPLE_SM_SUBMIT,
              SAMPLE_SFN, SAMPLE_SFN_SUBMIT, OTHER_SUBMIT}

NoAction == <<>>

----------------------------------------------------------------------------
(* Environment: secret, channel parameter, permission store *)

SigningSecret == "signing-secret"
ForeignSecret == "foreign-secret"

PermittedChannelId == "C-PERMITTED"
ChannelIds == {PermittedChannelId, "C-OTHER"}

\* A permission record: the attribute permittedActions is a string set
\* ("SS"), a list ("L") or missing ("none").
Rec(t, v) == [type |-> t, vals |-> v]

BotUsersTable ==
    [ alice  |-> Rec("SS", {SAMPLE_LAMBDA, SAMPLE_SM}),
      sam    |-> Rec("SS", {<<"sample">>}),
      omar   |-> Rec("SS", {<<"other">>, SAMPLE_SFN}),
      lee    |-> Rec("L", {SAMPLE_LAMBDA, SAMPLE_SFN}),
      dana   |-> Rec("L", {SAMPLE_LAMBDA, SAMPLE_SM}),
      pat    |-> Rec("L", {<<"sample">>}),
      empty  |-> Rec("L", {}),
      noattr |-> Rec("none", {}) ]

KnownUsers == DOMAIN BotUsersTable
UserNames == KnownUsers \cup {"eve"}

NoItem == [type |-> "noitem", vals |-> {}]

\* the record read for a user name (DynamoDB getItem / query)
lookup(userName) ==
    IF userName \in KnownUsers THEN BotUsersTable[userName] ELSE NoItem

----------------------------------------------------------------------------
(* Headers and bodies *)

TsUndefined == [type |-> "undefined", numeric |-> FALSE, num |-> 0]
TsText == [type |-> "string", numeric |-> FALSE, num |-> 0]
TsString(n) == [type |-> "string", numeric |-> TRUE, num |-> n]

FiveMinutesSec == 60 * 5

\* Math.floor(nowMs / 1000) - 60 * 5
fiveMinutesAgoSec(now) == (now \div 1000) - FiveMinutesSec

NowMsValues == {BaseNowMs, BaseNowMs + 999}

Threshold0 == fiveMinutesAgoSec(BaseNowMs)

TsNumbers == {Threshold0 + d : d \in (0 - MaxSkew)..MaxSkew}
               \cup {BaseNowMs \div 1000, (BaseNowMs \div 1000) + FiveMinutesSec}

TsHeaders == {TsUndefined, TsText} \cup {TsString(n) : n \in TsNumbers}

ResponseUrl(u) == <<"https://hooks.slack.com/", u>>

CommandBody(c, u) ==
    [kind |-> "command", channel_id |-> c, user_name |-> u,
     action_id |-> NoAction, response_url |-> ResponseUrl(u)]

InteractiveBody(c, u, a) ==
    [kind |-> "interactive", channel_id |-> c, user_name |-> u,
     action_id |-> a, response_url |-> ResponseUrl(u)]

Bodies == {CommandBody(c, u) : c \in ChannelIds, u \in UserNames}
            \cup {InteractiveBody(c, u, a) :
                    c \in ChannelIds, u \in UserNames, a \in ActionIds}

\* a body that differs from b in some bytes (the user name)
Tamper(b) ==
    [b EXCEPT !.user_name = IF b.user_name = "alice" THEN "eve" ELSE "alice"]

\* HMAC-SHA256 hex digest of `${version}:${timestamp}:${body}` under key
hmacDigest(key, version, ts, body) ==
    [key |-> key, version |-> version, ts |-> ts, body |-> body]

EmptyString == [key |-> "", version |-> "", ts |-> TsUndefined,
                body |-> CommandBody("", "")]

SigUndefined == [type |-> "undefined", parts |-> <<>>]
\* a header string, as the parts that split('=') yields
SigString(parts) == [type |-> "string", parts |-> parts]

SigHeaders(ts, body) ==
    { SigUndefined,
      SigString(<<"v0">>),
      SigString(<<"v0", EmptyString>>),
      SigString(<<"garbled">>),
      SigString(<<"v1", hmacDigest(SigningSecret, "v1", ts, body)>>),
      SigString(<<"v0", hmacDigest(SigningSecret, "v0", ts, body)>>),
      SigString(<<"v0", hmacDigest(SigningSecret, "v0", ts, Tamper(body))>>),
      SigString(<<"v0", hmacDigest(ForeignSecret, "v0", ts, body)>>) }

Entries == {"sm", "inline", "bolt"}

NoEvent == [entry |-> "none", ts |-> TsUndefined, sig |-> SigUndefined,
            body |-> CommandBody("", "")]

----------------------------------------------------------------------------
(* Signature verification of the inline handler *)

Ok == "ok"
ErrTimestampType == "Header X-Slack-Request-Timestamp did not have the expected type"
ErrStale == "Stale request"
ErrVersion == "Unknown signature version"
ErrMismatch == "Signature mismatch"
ErrTypeError == "TypeError: Cannot read properties of undefined (reading 'split')"

VerificationErrors == {ErrTimestampType, ErrStale, ErrVersion, ErrMismatch, ErrTypeError}

\* Number.isNaN(v): true only for the Number value NaN; a header is a
\* string or undefined, never a Number
NumberIsNaN(h) == h.type = "number" /\ ~h.numeric

\* the comparison made inclusive
lessThan_orEqual(h, n) == h.type = "string" /\ h.numeric /\ h.num <= n

\* h < n with h coerced to a Number: a comparison with NaN is false
lessThan(h, n) == h.type = "string" /\ h.numeric /\ h.num < n

\* tsscmp(a, b): constant-time string equality
tsscmp(a, b) == a = b

\* a digest computed over a body other than the one received
ourSignatureHash_otherBody(secret, signatureVersion, requestTimestampSec, body) ==
    hmacDigest(secret, signatureVersion, requestTimestampSec, Tamper(body))

\* hmac.update(`${signatureVersion}:${requestTimestampSec}:${event.body}`); digest('hex')
ourSignatureHash(secret, signatureVersion, requestTimestampSec, body) ==
    hmacDigest(secret, signatureVersion, requestTimestampSec, body)

\* a signature rule that lets a request without signature header through
checkSignature_lenient(ev, secret) ==
    IF ev.sig.type = "undefined" THEN Ok
    ELSE IF ev.sig.parts[1] # "v0" THEN ErrVersion
    ELSE IF Len(ev.sig.parts) < 2 THEN ErrMismatch
    ELSE IF ev.sig.parts[2] = hmacDigest(secret, "v0", ev.ts, ev.body) THEN Ok
    ELSE ErrMismatch

\* Rule 2: the signature rule: version, then digest
checkSignature(ev, secret) ==
    LET signature == ev.sig
    IN  IF signature.type = "undefined" THEN ErrTypeError
        ELSE LET signatureVersion == signature.parts[1]
                 hashPresent == Len(signature.parts) >= 2
                                  /\ signature.parts[2] # EmptyString
             IN  IF signatureVersion # "v0" THEN ErrVersion
                 ELSE IF ~hashPresent
                         \/ ~tsscmp(signature.parts[2],
                                    ourSignatureHash(secret, signatureVersion, ev.ts, ev.body))
                      THEN ErrMismatch
                      ELSE Ok

\* the signature rule applied before the staleness rule
verifySlackRequest_signatureFirst(ev, secret, now) ==
    IF NumberIsNaN(ev.ts) THEN ErrTimestampType
    ELSE IF checkSignature(ev, secret) # Ok THEN checkSignature(ev, secret)
    ELSE IF lessThan(ev.ts, fiveMinutesAgoSec(now)) THEN ErrStale
    ELSE Ok

verifySlackRequest(ev, secret, now) ==
    LET requestTimestampSec == ev.ts
    IN  IF NumberIsNaN(requestTimestampSec) THEN ErrTimestampType
        ELSE IF lessThan(requestTimestampSec, fiveMinutesAgoSec(now)) THEN ErrStale
        ELSE checkSignature(ev, secret)

\* Request verification of the Bolt receiver (AwsLambdaReceiver built with
\* the signing secret): both headers present, timestamp not stale, digest
\* equal to the HMAC of `${version}:${timestamp}:${body}`
boltVerifies(ev, secret, now) ==
    /\ ev.sig.type = "string"
    /\ ev.ts.type = "string"
    /\ ~lessThan(ev.ts, fiveMinutesAgoSec(now))
    /\ Len(ev.sig.parts) >= 2
    /\ tsscmp(ev.sig.parts[2], hmacDigest(secret, ev.sig.parts[1], ev.ts, ev.body))

----------------------------------------------------------------------------
(* Normalization of the request *)

NoUrl == <<>>

Details(c, u, a, base, url) ==
    [channelId |-> c, userName |-> u, action |-> a, actionBase |-> base,
     responseUrl |-> url, permittedActions |-> {}]

NoDetails == Details("", "", NoAction, NoAction, NoUrl)

\* parseRequest of the inline handler
parseRequestInline(body) ==
    IF body.kind = "interactive"
    THEN Details(body.channel_id, body.user_name, body.action_id, NoAction, body.response_url)
    ELSE Details(body.channel_id, body.user_name, WELCOME, NoAction, NoUrl)

\* parseRequest of the Bolt middleware
parseRequestBolt(body) ==
    IF body.kind = "command"
    THEN Details(body.channel_id, body.user_name, WELCOME, NoAction, NoUrl)
    ELSE Details(body.channel_id, body.user_name, body.action_id, NoAction, body.response_url)

\* parseRequest of the slack-auth function
parseRequestSlackAuth(body) ==
    IF body.kind = "command"
    THEN Details(body.channel_id, body.user_name, WELCOME, NoAction, body.response_url)
    ELSE Details(body.channel_id, body.user_name, body.action_id,
                 actionBaseOf(body.action_id), body.response_url)

----------------------------------------------------------------------------
(* Authorization checks *)

\* a channel check that never throws
verifySlackChannel_any(parameterValue, requestChannelId) == TRUE

\* verifySlackChannel: TRUE when it returns, FALSE when it throws
verifySlackChannel(parameterValue, requestChannelId) ==
    parameterValue = requestChannelId

\* verifySlackUser: TRUE when a record is found (response.Count # 0)
verifySlackUser(item) == item.type # "noitem"

\* a permission check that asks for the permitted entry itself
verifyUserPermission_exact(action, item) ==
    /\ item.type = "L"
    /\ \E permittedAction \in item.vals :
          action = WELCOME \/ action = permittedAction

\* verifyUserPermission: TRUE when it returns, FALSE when it throws; the
\* loop body is not entered for an empty list, and iterating a missing
\* attribute throws
verifyUserPermission(action, item) ==
    /\ item.type = "L"
    /\ \E permittedAction \in item.vals :
          action = WELCOME \/ startsWith(action, permittedAction)

\* a choice that always takes the first branch
validateChannelId_any(parameterValue, requestChannelId) == TRUE

\* Choice 'Validate Channel ID'
validateChannelId(parameterValue, requestChannelId) ==
    parameterValue = requestChannelId

\* a filter that keeps every entry that is a prefix of the action base
filterPermittedActions_prefix(item, base) == {a \in item.vals : startsWith(base, a)}

\* Pass 'Filter User Actions': permittedActions.SS[?(@ == $.request.actionBase)]
filterPermittedActions(item, base) == {a \in item.vals : a = base}

----------------------------------------------------------------------------
(* Outcomes *)

UnauthorizedText == "You are not authorized to use this command here"
VerificationFailurePrefix == "Slack verification failure: "
SlackAuthError == "Failed to validate slack message"

\* an answer whose status depends on the message it carries
generateResponse_byBody(body) ==
    [kind |-> "http",
     statusCode |-> IF body = <<UnauthorizedText>> THEN 403 ELSE 200,
     body |-> body]

\* generateResponse(body)
generateResponse(body) == [kind |-> "http", statusCode |-> 200, body |-> body]

\* answer of the Bolt receiver for a request it does not verify
BoltUnauthorizedResponse == [kind |-> "http", statusCode |-> 401, body |-> <<>>]

\* answer of the Bolt receiver after ack()
BoltAckResponse == [kind |-> "http", statusCode |-> 200, body |-> <<>>]

\* end of a state machine execution
Execution(status, cause) == [kind |-> "execution", statusCode |-> 0, body |-> <<status, cause>>]

\* the integration response of POST /slack/events in front of the state
\* machine: the only mapping, with the status overridden and an empty body,
\* whatever the execution returned
integrationResponses(execution) ==
    [kind |-> "http", statusCode |-> 204, body |-> <<>>]

NoResponse == [kind |-> "none", statusCode |-> 0, body |-> <<>>]

\* the body posted by sendEphemeralMessage / respond()
EphemeralPost(url, ok) ==
    [url |-> url, text |-> UnauthorizedText, response_type |-> "ephemeral", ok |-> ok]

Fail(check) == failedAt' = check
Pass(checks) == trace' = trace \o checks

----------------------------------------------------------------------------
(* Runs of a submitted job: inputs, environment and pure helpers *)

MaxPolls == 2

\* how many times a task is retried in a run of the model
MaxRetries == 1

\* the implementations of a run: handleActionSubmit of the inline handler
\* or of the Bolt listener followed by the service trigger, or a submit
\* processor state machine
Impls == {"inline", "bolt", "processor"}
Jobs == {"lambda", "workflow"}

InputValues == {"v1", "v2"}

\* the state of the submitted form: the block form_input with the element
\* input_value that holds what the user typed
FormState(v) == [values |-> [form_input |-> [input_value |-> [value |-> v]]]]

\* parseRequest: inputValue = state.values.form_input.input_value.value
inputValueOf(state) == state.values.form_input.input_value.value

\* a payload that carries the action instead of the input value
jobPayload_action(job, detail) ==
    IF job = "lambda"
    THEN [input |-> "sample-lambda/submit"]
    ELSE [waitSeconds |-> 1, input |-> "sample-sfn/submit"]

\* the payload of the job: { input: inputValue } for the function,
\* { waitSeconds: 1, input: inputValue } for the workflow
jobPayload(job, detail) ==
    IF job = "lambda"
    THEN [input |-> detail.inputValue]
    ELSE [waitSeconds |-> 1, input |-> detail.inputValue]

\* the timestamps that Slack assigns to a posted message
MessageTimestamps == {"1700000000.000100", "1700000000.000200"}

\* how Slack answers a call: ok, a body with ok: false, or an HTTP error
Replies == {"ok", "not_ok", "http_error"}

\* the outcomes of a job: for a function, its result, an error it raises or
\* a refused invocation; for a workflow, its terminal status
JobOutcomes(job) ==
    IF job = "lambda"
    THEN {[kind |-> "success", text |-> "some result"],
          [kind |-> "functionError", text |-> "boom"],
          [kind |-> "invokeError", text |-> "Rate Exceeded"]}
    ELSE {[kind |-> "SUCCEEDED", text |-> "some result"],
          [kind |-> "FAILED", text |-> "boom"],
          [kind |-> "TIMED_OUT", text |-> "States.Timeout"]}

\* a JavaScript value that is a string (chunks of text) or undefined
Str(chunks) == [type |-> "string", chunks |-> chunks]
Undefined == [type |-> "undefined", chunks |-> <<>>]

\* '' + value
toString(value) == IF value.type = "undefined" THEN <<"undefined">> ELSE value.chunks

\* new Error(value).message
errorMessage(value) == IF value.type = "undefined" THEN <<>> ELSE value.chunks

\* lambdaClient.invoke(...).promise(): an error raised by the function is
\* reported in the resolved result (FunctionError with the error as
\* payload); only a refused invocation rejects
lambdaInvoke(outcome) ==
    CASE outcome.kind = "success" ->
           [rejected |-> FALSE, FunctionError |-> "", Payload |-> Str(<<outcome.text>>),
            message |-> <<>>]
      [] outcome.kind = "functionError" ->
           [rejected |-> FALSE, FunctionError |-> "Unhandled",
            Payload |-> Str(<<"{errorMessage:", outcome.text, "}">>), message |-> <<>>]
      [] outcome.kind = "invokeError" ->
           [rejected |-> TRUE, FunctionError |-> "", Payload |-> Undefined,
            message |-> <<outcome.text>>]

\* a loop that gives up after one wait
loopContinues_capped(status, polls) == status = "RUNNING" /\ polls < 1

\* while (execution.status === 'RUNNING'): no count of the polls, no
\* deadline and no cancellation enter the condition
loopContinues(status, polls) == status = "RUNNING"

\* a wait that grows with the time already waited
afterTimeout_backoff(waited) == waited + waited + 500

\* await new Promise(resolve => setTimeout(() => resolve(true), 500)): the
\* time waited so far, in milliseconds, after one more wait
afterTimeout(waited) == waited + 500

\* sfnClient.describeExecution(...).promise(): output is set only when the
\* execution has succeeded
describeExecution(outcome, running) ==
    IF running
    THEN [status |-> "RUNNING", output |-> Undefined]
    ELSE [status |-> outcome.kind,
          output |-> IF outcome.kind = "SUCCEEDED" THEN Str(<<outcome.text>>)
                     ELSE Undefined]

\* new LambdaInvoke(...) without retryOnServiceExceptions: false, so the
\* task is built with a retry on the transient failures of the Lambda
\* service (Lambda.ServiceException, Lambda.AWSLambdaException,
\* Lambda.SdkClientException)
retryOnServiceExceptions(outcome, attempts) ==
    outcome.kind = "serviceException" /\ attempts < MaxRetries

\* the result of a LambdaInvoke or StepFunctionsStartExecution (RUN_JOB)
\* task: the job's result, or the error with its cause handed to the catch
taskResult(outcome) ==
    IF outcome.kind \in {"success", "SUCCEEDED"}
    THEN [failed |-> FALSE, content |-> <<outcome.text>>]
    ELSE [failed |-> TRUE, content |-> <<"{errorMessage:", outcome.text, "}">>]

\* buildStatusBlocks(status)
buildStatusBlocks(status) ==
    IF status = "running" THEN "Execution has started..."
    ELSE IF status = "success" THEN "Execution was successful!"
    ELSE "Execution has failed. Please see details below"

\* the three backquotes that open and close a code block
Fence == "(fence)"

\* buildDetailsBlock(fence + content + fence)
buildDetailsBlock(content) == <<Fence>> \o content \o <<Fence>>

NoDetailsBlock == <<>>

\* the blocks of a status message: [...headerBlocks,
\* ...this.buildStatusBlocks(status), ...this.buildDetailsBlocks(path)], the
\* running message having no details blocks
render(status, content) ==
    [status |-> buildStatusBlocks(status),
     details |-> IF status = "running" THEN NoDetailsBlock
                 ELSE buildDetailsBlock(content)]

\* a call to Slack: the API (or the response URL), the channel, the message
\* timestamp (sent with an update, received from a post), the blocks and
\* how Slack answered
Call(api, channel, ts, status, details, reply) ==
    [api |-> api, channel |-> channel, ts |-> ts, status |-> status,
     details |-> details, reply |-> reply]

\* response.data of chat.postMessage
postMessageReply(reply, ts) ==
    [ok |-> reply = "ok", ts |-> IF reply = "ok" THEN ts ELSE ""]

\* the timestamps that Slack can give to the next message of the channel:
\* no two messages of a channel have the same one
NextTimestamps(posted) ==
    MessageTimestamps \ {posted[i].ts : i \in 1..Len(posted)}

\* a check of the post's answer that never fails
postFailed_never(reply) == reply = "http_error"

\* axios throws on an HTTP error; if (!response.data.ok) throw ...
postFailed(reply) == reply # "ok"

\* an https-client function that does not read the answer's body
httpsClientFailed_httpOnly(reply) == reply = "http_error"

\* the https-client function: returns response.data when Slack answers ok,
\* throws otherwise
httpsClientFailed(reply) == reply # "ok"

\* a service request that carries the timestamp of the form message
buildServiceRequest_formTs(action, channelId, input, data) ==
    [action |-> action, channelId |-> channelId, messageTs |-> "form-ts",
     inputValue |-> input]

\* const serviceRequest = { action, channelId, messageTs: response.data.ts,
\*                          headerBlocks, inputValue }
buildServiceRequest(action, channelId, input, data) ==
    [action |-> action, channelId |-> channelId, messageTs |-> data.ts,
     inputValue |-> input]

NoServiceRequest ==
    [action |-> NoAction, channelId |-> "", messageTs |-> "", inputValue |-> ""]

NoRun ==
    [impl |-> "none", job |-> "none", pc |-> "none",
     detail |-> [action |-> NoAction, channelId |-> "", inputValue |-> "",
                 responseUrl |-> NoUrl],
     calls |-> <<>>, postMessageResult |-> [ok |-> FALSE, ts |-> ""],
     serviceRequest |-> NoServiceRequest, outcome |-> [kind |-> "none", text |-> ""],
     invocations |-> <<>>, attempts |-> 0, polls |-> 0, reads |-> <<>>,
     waited |-> 0,
     content |-> <<>>, end |-> "", error |-> <<>>]

----------------------------------------------------------------------------
(* Routing of a dispatched request to its handler *)

UnhandledAction == "Unhandled action received"
ProcessFailure == "Failed to process request. Please try again later"
TransportFailure == "Request failed"

\* a handler as registered: the construct or branch that holds it, its kind
\* (Welcome, Form, Submit), the job it names and the action base it serves
Handler(id, kind, name, action) ==
    [id |-> id, kind |-> kind, name |-> name, actionBase |-> actionBaseOf(action)]

\* processCommand: the branch taken for an action; no branch means that
\* 'Unhandled action received' is thrown
processCommand(action) ==
    IF action = WELCOME
    THEN {Handler("welcome", "Welcome", "", WELCOME)}
    ELSE IF action = SAMPLE_LAMBDA
    THEN {Handler("sample-lambda", "Form", "Sample Lambda", SAMPLE_LAMBDA)}
    ELSE IF action = SAMPLE_LAMBDA_SUBMIT
    THEN {Handler("sample-lambda/submit", "Submit", "Sample Lambda", SAMPLE_LAMBDA_SUBMIT)}
    ELSE IF action = SAMPLE_SFN
    THEN {Handler("sample-sfn", "Form", "Sample State Machine", SAMPLE_SFN)}
    ELSE IF action = SAMPLE_SFN_SUBMIT
    THEN {Handler("sample-sfn/submit", "Submit", "Sample State Machine", SAMPLE_SFN_SUBMIT)}
    ELSE {}

\* the listeners that configureApp registers on the Bolt app
Listeners ==
    {[on |-> "command", match |-> NoAction,
      handler |-> Handler("/my-slack-bot", "Welcome", "", WELCOME)],
     [on |-> "action", match |-> SAMPLE_LAMBDA,
      handler |-> Handler("sample-lambda", "Form", "Sample Lambda", SAMPLE_LAMBDA)],
     [on |-> "action", match |-> SAMPLE_LAMBDA_SUBMIT,
      handler |-> Handler("sample-lambda/submit", "Submit", "Sample Lambda",
                          SAMPLE_LAMBDA_SUBMIT)],
     [on |-> "action", match |-> SAMPLE_SFN,
      handler |-> Handler("sample-sfn", "Form", "Sample State Machine", SAMPLE_SFN)],
     [on |-> "action", match |-> SAMPLE_SFN_SUBMIT,
      handler |-> Handler("sample-sfn/submit", "Submit", "Sample State Machine",
                          SAMPLE_SFN_SUBMIT)]}

\* app.command(name, ...) listens to slash commands, app.action(id, ...) to
\* block actions with that action_id
listenerMatches(l, body) ==
    IF l.on = "command"
    THEN body.kind = "command"
    ELSE body.kind = "interactive" /\ body.action_id = l.match

\* the processors that the stack's constructor builds, each with the action
\* its rule on the command event bus listens to
Processors ==
    {[action |-> WELCOME,
      handler |-> Handler("WelcomeStateMachineProcessor", "Welcome", "", WELCOME)],
     [action |-> SAMPLE_LAMBDA,
      handler |-> Handler("SampleLambdaProcessor", "Form", "Sample Lambda", SAMPLE_LAMBDA)],
     [action |-> SAMPLE_LAMBDA_SUBMIT,
      handler |-> Handler("SampleLambdaSubmitProcessor", "Submit", "Sample Lambda",
                          SAMPLE_LAMBDA_SUBMIT)],
     [action |-> SAMPLE_SM,
      handler |-> Handler("SampleStateMachineProcessor", "Form", "Sample State Machine",
                          SAMPLE_SM)],
     [action |-> SAMPLE_SM_SUBMIT,
      handler |-> Handler("SampleStateMachineSubmitProcessor", "Submit",
                          "Sample State Machine", SAMPLE_SM_SUBMIT)]}

\* the event that 'Send to Command EventBus' puts on the bus
CommandEvent(details) ==
    [source |-> "slack-app", detailType |-> details.action, detail |-> details]

\* a rule that matches every detail type its action is a prefix of
ruleMatches_prefix(p, ev) ==
    ev.source = "slack-app" /\ startsWith(ev.detailType, p.action)

\* eventPattern: { source: ['slack-app'], detailType: [action] }
ruleMatches(p, ev) ==
    ev.source = "slack-app" /\ ev.detailType = p.action

\* the targets of the rules that match an event; an event that no rule
\* matches is delivered to no target
busTargets(ev) == {p.handler : p \in {q \in Processors : ruleMatches(q, ev)}}

----------------------------------------------------------------------------
(* A process of a Bolt handler: module variables and invocations *)

MaxInvocations == 3       \* invocations that one process serves
MaxInFlight == 2          \* invocations of one process that are in flight at once
MaxRenders == 3           \* status documents rendered
MaxCalls == 3             \* invocations of the https-client function

Slots == 1..MaxInFlight

\* requests to a process: a command or a submit, signed with the signing
\* secret or with another one
ProcEvents ==
    LET ts == TsString(BaseNowMs \div 1000)
    IN  {[entry |-> "process", ts |-> ts,
          sig |-> SigString(<<"v0", hmacDigest(k, "v0", ts, b)>>), body |-> b] :
            b \in {CommandBody(PermittedChannelId, "alice"),
                   InteractiveBody(PermittedChannelId, "sam", SAMPLE_LAMBDA_SUBMIT)},
            k \in {SigningSecret, ForeignSecret}}

NoInvocation ==
    [pc |-> "none", event |-> NoEvent, statusCode |-> 0, result |-> NoDetails,
     error |-> "", overlapped |-> FALSE]

InFlight(invocation) == invocation.pc \notin {"none", "returned", "threw"}

\* let awsLambdaReceiver = null; let app = null; let requestDetails = null
NoProc ==
    [module |-> "none", awsLambdaReceiver |-> "null", app |-> "null",
     receiverApp |-> FALSE, middleware |-> 0, requestDetails |-> NoDetails,
     initBolt |-> 0, configureApp |-> 0, served |-> 0, overlaps |-> 0,
     inv |-> [i \in Slots |-> NoInvocation]]

----------------------------------------------------------------------------
(* Reception *)

Init ==
    /\ pc = "idle"
    /\ event = NoEvent
    /\ nowMs = BaseNowMs
    /\ verifyResult = ""
    /\ requestDetails = NoDetails
    /\ getParameterResult = ""
    /\ getUserResult = NoItem
    /\ trace = <<>>
    /\ failedAt = "none"
    /\ ssmReads = 0
    /\ ddbReads = 0
    /\ dispatched = FALSE
    /\ response = NoResponse
    /\ posts = <<>>
    /\ triggered = {}
    /\ errorLog = <<>>
    /\ run = NoRun
    /\ proc = NoProc
    /\ racing = NoRun
    /\ rendered = <<>>
    /\ transport = <<>>

\* The permission records that an entry point can read: the DocumentClient
\* of the inline handler and of the Bolt middleware hands a list attribute
\* over as an array; the state machine reads the attribute as stored.
Readable(entry, userName) ==
    entry \in {"inline", "bolt"} => lookup(userName).type # "SS"

FirstStep(entry) ==
    CASE entry = "sm" -> "sm_validateSlackMessage"
      [] entry = "inline" -> "inline_verify"
      [] entry = "bolt" -> "bolt_receiver"

\* A request arrives at one of the entry points
Receive ==
    /\ pc = "idle"
    /\ \E entry \in Entries, ts \in TsHeaders, body \in Bodies, now \in NowMsValues :
         /\ Readable(entry, body.user_name)
         /\ \E sig \in SigHeaders(ts, body) :
              event' = [entry |-> entry, ts |-> ts, sig |-> sig, body |-> body]
         /\ nowMs' = now
         /\ pc' = FirstStep(entry)
    /\ UNCHANGED <<verifyResult, requestDetails, getParameterResult, getUserResult,
                   trace, failedAt, ssmReads, ddbReads, dispatched, response, posts>>
    /\ UNCHANGED <<triggered, errorLog>>
    /\ UNCHANGED <<run, proc, racing, rendered, transport>>

\* The handling of the request has ended; the entry point awaits the next one
Return ==
    /\ pc = "done"
    /\ pc' = "idle"
    /\ event' = NoEvent
    /\ nowMs' = BaseNowMs
    /\ verifyResult' = ""
    /\ requestDetails' = NoDetails
    /\ getParameterResult' = ""
    /\ getUserResult' = NoItem
    /\ trace' = <<>>
    /\ failedAt' = "none"
    /\ ssmReads' = 0
    /\ ddbReads' = 0
    /\ dispatched' = FALSE
    /\ response' = NoResponse
    /\ posts' = <<>>
    /\ triggered' = {}
    /\ errorLog' = <<>>
    /\ UNCHANGED <<run, proc, racing, rendered, transport>>

----------------------------------------------------------------------------
(* Inline handler: exports.handler of the first file of unnamed/part_001 *)

\* try { await verifySlackRequest(event) } catch ...; parseRequest(event)
InlineVerify ==
    /\ pc = "inline_verify"
    /\ verifyResult' = verifySlackRequest(event, SigningSecret, nowMs)
    /\ IF verifyResult' = Ok
       THEN /\ requestDetails' = parseRequestInline(event.body)
            /\ Pass(<<"signature">>)
            /\ pc' = "inline_channel"
            /\ UNCHANGED <<failedAt, response>>
       ELSE /\ Fail("signature")
            /\ response' = generateResponse(<<VerificationFailurePrefix, verifyResult'>>)
            /\ pc' = "done"
            /\ UNCHANGED <<requestDetails, trace>>
    /\ UNCHANGED <<event, nowMs, getParameterResult, getUserResult, ssmReads,
                   ddbReads, dispatched, posts>>
    /\ UNCHANGED <<triggered, errorLog>>
    /\ UNCHANGED <<run, proc, racing, rendered, transport>>

\* try { await verifySlackChannel(requestDetails.channelId) } catch ...
InlineVerifyChannel ==
    /\ pc = "inline_channel"
    /\ ssmReads' = ssmReads + 1
    /\ getParameterResult' = PermittedChannelId
    /\ IF verifySlackChannel(getParameterResult', requestDetails.channelId)
       THEN /\ Pass(<<"channel">>)
            /\ pc' = "inline_user"
            /\ UNCHANGED <<failedAt, response>>
       ELSE /\ Fail("channel")
            /\ response' = generateResponse(<<UnauthorizedText>>)
            /\ pc' = "done"
            /\ UNCHANGED trace
    /\ UNCHANGED <<event, nowMs, verifyResult, requestDetails, getUserResult,
                   ddbReads, dispatched, posts>>
    /\ UNCHANGED <<triggered, errorLog>>
    /\ UNCHANGED <<run, proc, racing, rendered, transport>>

\* a user check that tells the requester that the user is unknown
InlineVerifyUser_leaky ==
    /\ pc = "inline_user"
    /\ ddbReads' = ddbReads + 1
    /\ getUserResult' = lookup(requestDetails.userName)
    /\ IF verifySlackUser(getUserResult')
       THEN /\ requestDetails' = [requestDetails EXCEPT !.permittedActions = getUserResult'.vals]
            /\ Pass(<<"user">>)
            /\ pc' = "inline_permission"
            /\ UNCHANGED <<failedAt, response>>
       ELSE /\ Fail("user")
            /\ response' = generateResponse(<<"User not found">>)
            /\ pc' = "done"
            /\ UNCHANGED <<requestDetails, trace>>
    /\ UNCHANGED <<event, nowMs, verifyResult, getParameterResult, ssmReads,
                   dispatched, posts>>
    /\ UNCHANGED <<triggered, errorLog>>
    /\ UNCHANGED <<run, proc, racing, rendered, transport>>

\* try { requestDetails.permittedActions = await verifySlackUser(...) } catch ...
InlineVerifyUser ==
    /\ pc = "inline_user"
    /\ ddbReads' = ddbReads + 1
    /\ getUserResult' = lookup(requestDetails.userName)
    /\ IF verifySlackUser(getUserResult')
       THEN /\ requestDetails' = [requestDetails EXCEPT !.permittedActions = getUserResult'.vals]
            /\ Pass(<<"user">>)
            /\ pc' = "inline_permission"
            /\ UNCHANGED <<failedAt, response>>
       ELSE /\ Fail("user")
            /\ response' = generateResponse(<<UnauthorizedText>>)
            /\ pc' = "done"
            /\ UNCHANGED <<requestDetails, trace>>
    /\ UNCHANGED <<event, nowMs, verifyResult, getParameterResult, ssmReads,
                   dispatched, posts>>
    /\ UNCHANGED <<triggered, errorLog>>
    /\ UNCHANGED <<run, proc, racing, rendered, transport>>

\* try { verifyUserPermission(requestDetails) } catch ...
InlineVerifyPermission ==
    /\ pc = "inline_permission"
    /\ IF verifyUserPermission(requestDetails.action, getUserResult)
       THEN /\ Pass(<<"permission">>)
            /\ pc' = "inline_process"
            /\ UNCHANGED <<failedAt, response>>
       ELSE /\ Fail("permission")
            /\ response' = generateResponse(<<UnauthorizedText>>)
            /\ pc' = "done"
            /\ UNCHANGED trace
    /\ UNCHANGED <<event, nowMs, verifyResult, requestDetails, getParameterResult,
                   getUserResult, ssmReads, ddbReads, dispatched, posts>>
    /\ UNCHANGED <<triggered, errorLog>>
    /\ UNCHANGED <<run, proc, racing, rendered, transport>>

\* try { const response = await processCommand(requestDetails) ... } catch ...
InlineProcessCommand ==
    /\ pc = "inline_process"
    /\ dispatched' = TRUE
    /\ triggered' = processCommand(requestDetails.action)
    /\ IF triggered' = {}
       THEN /\ errorLog' = Append(errorLog, UnhandledAction)
            /\ response' = generateResponse(<<ProcessFailure>>)
       ELSE \E ok \in BOOLEAN :
              /\ requestDetails.action = WELCOME => ok
              /\ IF ok
                 THEN /\ response' = generateResponse(<<"processCommand",
                                                        requestDetails.action>>)
                      /\ UNCHANGED errorLog
                 ELSE /\ errorLog' = Append(errorLog, TransportFailure)
                      /\ response' = generateResponse(<<ProcessFailure>>)
    /\ pc' = "done"
    /\ UNCHANGED <<event, nowMs, verifyResult, requestDetails, getParameterResult,
                   getUserResult, trace, failedAt, ssmReads, ddbReads, posts>>
    /\ UNCHANGED <<run, proc, racing, rendered, transport>>

----------------------------------------------------------------------------
(* Bolt middleware: exports.handler and configureApp of the second file of *)
(* unnamed/part_001                                                        *)

\* handler(event, context, callback): the receiver verifies the request,
\* then the middleware acknowledges it and normalizes the body
BoltReceiver ==
    /\ pc = "bolt_receiver"
    /\ IF boltVerifies(event, SigningSecret, nowMs)
       THEN /\ verifyResult' = Ok
            /\ requestDetails' = parseRequestBolt(event.body)
            /\ response' = BoltAckResponse
            /\ Pass(<<"signature">>)
            /\ pc' = "bolt_channel"
            /\ UNCHANGED failedAt
       ELSE /\ verifyResult' = "401"
            /\ Fail("signature")
            /\ response' = BoltUnauthorizedResponse
            /\ pc' = "done"
            /\ UNCHANGED <<requestDetails, trace>>
    /\ UNCHANGED <<event, nowMs, getParameterResult, getUserResult, ssmReads,
                   ddbReads, dispatched, posts>>
    /\ UNCHANGED <<triggered, errorLog>>
    /\ UNCHANGED <<run, proc, racing, rendered, transport>>

\* await respond({ text: ..., response_type: 'ephemeral' }); return
BoltRespondUnauthorized(check) ==
    /\ Fail(check)
    /\ \E ok \in BOOLEAN :
         /\ posts' = Append(posts, EphemeralPost(event.body.response_url, ok))
         /\ response' = IF ok THEN response
                        ELSE [kind |-> "http", statusCode |-> 500, body |-> <<>>]
    /\ pc' = "done"

BoltVerifyChannel ==
    /\ pc = "bolt_channel"
    /\ ssmReads' = ssmReads + 1
    /\ getParameterResult' = PermittedChannelId
    /\ IF verifySlackChannel(getParameterResult', requestDetails.channelId)
       THEN /\ Pass(<<"channel">>)
            /\ pc' = "bolt_user"
            /\ UNCHANGED <<failedAt, response, posts>>
       ELSE /\ BoltRespondUnauthorized("channel")
            /\ UNCHANGED trace
    /\ UNCHANGED <<event, nowMs, verifyResult, requestDetails, getUserResult,
                   ddbReads, dispatched>>
    /\ UNCHANGED <<triggered, errorLog>>
    /\ UNCHANGED <<run, proc, racing, rendered, transport>>

BoltVerifyUser ==
    /\ pc = "bolt_user"
    /\ ddbReads' = ddbReads + 1
    /\ getUserResult' = lookup(requestDetails.userName)
    /\ IF verifySlackUser(getUserResult')
       THEN /\ requestDetails' = [requestDetails EXCEPT !.permittedActions = getUserResult'.vals]
            /\ Pass(<<"user">>)
            /\ pc' = "bolt_permission"
            /\ UNCHANGED <<failedAt, response, posts>>
       ELSE /\ BoltRespondUnauthorized("user")
            /\ UNCHANGED <<requestDetails, trace>>
    /\ UNCHANGED <<event, nowMs, verifyResult, getParameterResult, ssmReads,
                   dispatched>>
    /\ UNCHANGED <<triggered, errorLog>>
    /\ UNCHANGED <<run, proc, racing, rendered, transport>>

BoltVerifyPermission ==
    /\ pc = "bolt_permission"
    /\ IF verifyUserPermission(requestDetails.action, getUserResult)
       THEN /\ Pass(<<"permission">>)
            /\ pc' = "bolt_next"
            /\ UNCHANGED <<failedAt, response, posts>>
       ELSE /\ BoltRespondUnauthorized("permission")
            /\ UNCHANGED trace
    /\ UNCHANGED <<event, nowMs, verifyResult, requestDetails, getParameterResult,
                   getUserResult, ssmReads, ddbReads, dispatched>>
    /\ UNCHANGED <<triggered, errorLog>>
    /\ UNCHANGED <<run, proc, racing, rendered, transport>>

\* await next!()
BoltNext ==
    /\ pc = "bolt_next"
    /\ dispatched' = TRUE
    /\ triggered' = {l.handler : l \in {k \in Listeners : listenerMatches(k, event.body)}}
    /\ pc' = "done"
    /\ UNCHANGED <<event, nowMs, verifyResult, requestDetails, getParameterResult,
                   getUserResult, trace, failedAt, ssmReads, ddbReads, response, posts,
                   errorLog>>
    /\ UNCHANGED <<run, proc, racing, rendered, transport>>

----------------------------------------------------------------------------
(* RequestValidator state machine: buildRequestValidatorStateMachine *)

\* 'Validate Slack Message': the slack-auth function returns the request
\* details, or throws when the receiver does not answer 200; the catch of
\* States.ALL leads to the Fail state
SMValidateSlackMessage ==
    /\ pc = "sm_validateSlackMessage"
    /\ IF boltVerifies(event, SigningSecret, nowMs)
       THEN /\ verifyResult' = Ok
            /\ requestDetails' = parseRequestSlackAuth(event.body)
            /\ Pass(<<"signature">>)
            /\ pc' = "sm_getChannelId"
            /\ UNCHANGED <<failedAt, response>>
       ELSE /\ verifyResult' = SlackAuthError
            /\ Fail("signature")
            /\ response' = Execution("FAILED", "Validate Slack Message Failure")
            /\ pc' = "done"
            /\ UNCHANGED <<requestDetails, trace>>
    /\ UNCHANGED <<event, nowMs, getParameterResult, getUserResult, ssmReads,
                   ddbReads, dispatched, posts>>
    /\ UNCHANGED <<triggered, errorLog>>
    /\ UNCHANGED <<run, proc, racing, rendered, transport>>

\* 'Get Channel ID Value'
SMGetChannelId ==
    /\ pc = "sm_getChannelId"
    /\ ssmReads' = ssmReads + 1
    /\ getParameterResult' = PermittedChannelId
    /\ pc' = "sm_validateChannelId"
    /\ UNCHANGED <<event, nowMs, verifyResult, requestDetails, getUserResult,
                   trace, failedAt, ddbReads, dispatched, response, posts>>
    /\ UNCHANGED <<triggered, errorLog>>
    /\ UNCHANGED <<run, proc, racing, rendered, transport>>

\* Choice 'Validate Channel ID'
SMValidateChannelId ==
    /\ pc = "sm_validateChannelId"
    /\ IF validateChannelId(getParameterResult, requestDetails.channelId)
       THEN /\ Pass(<<"channel">>)
            /\ pc' = "sm_getSlackUser"
            /\ UNCHANGED failedAt
       ELSE /\ Fail("channel")
            /\ pc' = "sm_unauthorized"
            /\ UNCHANGED trace
    /\ UNCHANGED <<event, nowMs, verifyResult, requestDetails, getParameterResult,
                   getUserResult, ssmReads, ddbReads, dispatched, response, posts>>
    /\ UNCHANGED <<triggered, errorLog>>
    /\ UNCHANGED <<run, proc, racing, rendered, transport>>

\* 'Get Slack User'
SMGetSlackUser ==
    /\ pc = "sm_getSlackUser"
    /\ ddbReads' = ddbReads + 1
    /\ getUserResult' = lookup(requestDetails.userName)
    /\ pc' = "sm_validateSlackUser"
    /\ UNCHANGED <<event, nowMs, verifyResult, requestDetails, getParameterResult,
                   trace, failedAt, ssmReads, dispatched, response, posts>>
    /\ UNCHANGED <<triggered, errorLog>>
    /\ UNCHANGED <<run, proc, racing, rendered, transport>>

\* Choice 'Validate Slack User'
SMValidateSlackUser ==
    /\ pc = "sm_validateSlackUser"
    /\ IF getUserResult.type # "noitem" /\ requestDetails.action = WELCOME
       THEN /\ Pass(<<"user", "permission">>)
            /\ pc' = "sm_mapUserActions"
            /\ UNCHANGED failedAt
       ELSE IF getUserResult.type # "noitem" /\ requestDetails.action # WELCOME
       THEN /\ Pass(<<"user">>)
            /\ pc' = "sm_filterUserActions"
            /\ UNCHANGED failedAt
       ELSE /\ Fail("user")
            /\ pc' = "sm_unauthorized"
            /\ UNCHANGED trace
    /\ UNCHANGED <<event, nowMs, verifyResult, requestDetails, getParameterResult,
                   getUserResult, ssmReads, ddbReads, dispatched, response, posts>>
    /\ UNCHANGED <<triggered, errorLog>>
    /\ UNCHANGED <<run, proc, racing, rendered, transport>>

\* Pass 'Filter User Actions' and Choice 'Validate Permitted Actions'.  When
\* the record has no string set, the filter path selects nothing (and the
\* choice denies) or the Pass state itself fails with States.Runtime before
\* the choice is reached.
SMFilterUserActions ==
    /\ pc = "sm_filterUserActions"
    /\ \/ /\ getUserResult.type = "SS"
          /\ filterPermittedActions(getUserResult, requestDetails.actionBase) # {}
          /\ Pass(<<"permission">>)
          /\ pc' = "sm_mapUserActions"
          /\ UNCHANGED <<failedAt, response>>
       \/ /\ \/ getUserResult.type # "SS"
             \/ filterPermittedActions(getUserResult, requestDetails.actionBase) = {}
          /\ Fail("permission")
          /\ pc' = "sm_unauthorized"
          /\ UNCHANGED <<trace, response>>
       \/ /\ getUserResult.type # "SS"
          /\ Fail("filter")
          /\ response' = Execution("FAILED", "States.Runtime")
          /\ pc' = "done"
          /\ UNCHANGED trace
    /\ UNCHANGED <<event, nowMs, verifyResult, requestDetails, getParameterResult,
                   getUserResult, ssmReads, ddbReads, dispatched, posts>>
    /\ UNCHANGED <<triggered, errorLog>>
    /\ UNCHANGED <<run, proc, racing, rendered, transport>>

\* a 'Map User Actions' state that passes on no permitted action
SMMapUserActions_none ==
    /\ pc = "sm_mapUserActions"
    /\ IF getUserResult.type = "SS"
       THEN /\ requestDetails' = [requestDetails EXCEPT !.permittedActions = {}]
            /\ pc' = "sm_sendToCommandEventBus"
            /\ UNCHANGED <<failedAt, response>>
       ELSE /\ Fail("map")
            /\ response' = Execution("FAILED", "States.Runtime")
            /\ pc' = "done"
            /\ UNCHANGED requestDetails
    /\ UNCHANGED <<event, nowMs, verifyResult, getParameterResult, getUserResult,
                   trace, ssmReads, ddbReads, dispatched, posts>>
    /\ UNCHANGED <<triggered, errorLog>>
    /\ UNCHANGED <<run, proc, racing, rendered, transport>>

\* Pass 'Map User Actions': inputPath $.getUserResult.Item.permittedActions.SS
SMMapUserActions ==
    /\ pc = "sm_mapUserActions"
    /\ IF getUserResult.type = "SS"
       THEN /\ requestDetails' = [requestDetails EXCEPT !.permittedActions = getUserResult.vals]
            /\ pc' = "sm_sendToCommandEventBus"
            /\ UNCHANGED <<failedAt, response>>
       ELSE /\ Fail("map")
            /\ response' = Execution("FAILED", "States.Runtime")
            /\ pc' = "done"
            /\ UNCHANGED requestDetails
    /\ UNCHANGED <<event, nowMs, verifyResult, getParameterResult, getUserResult,
                   trace, ssmReads, ddbReads, dispatched, posts>>
    /\ UNCHANGED <<triggered, errorLog>>
    /\ UNCHANGED <<run, proc, racing, rendered, transport>>

\* 'Send to Command EventBus'
SMSendToCommandEventBus ==
    /\ pc = "sm_sendToCommandEventBus"
    /\ dispatched' = TRUE
    /\ triggered' = busTargets(CommandEvent(requestDetails))
    /\ response' = Execution("SUCCEEDED", "")
    /\ pc' = "done"
    /\ UNCHANGED <<event, nowMs, verifyResult, requestDetails, getParameterResult,
                   getUserResult, trace, failedAt, ssmReads, ddbReads, posts,
                   errorLog>>
    /\ UNCHANGED <<run, proc, racing, rendered, transport>>

\* an 'Unauthorized User Message' state that ends the execution without
\* posting anything
SMUnauthorizedUserMessage_silent ==
    /\ pc = "sm_unauthorized"
    /\ response' = Execution("SUCCEEDED", "")
    /\ pc' = "done"
    /\ UNCHANGED <<event, nowMs, verifyResult, requestDetails, getParameterResult,
                   getUserResult, trace, failedAt, ssmReads, ddbReads, dispatched,
                   posts>>
    /\ UNCHANGED <<triggered, errorLog>>
    /\ UNCHANGED <<run, proc, racing, rendered, transport>>

\* 'Unauthorized User Message': the https-client function posts the text
\* to the response URL and throws when Slack does not answer ok
SMUnauthorizedUserMessage ==
    /\ pc = "sm_unauthorized"
    /\ \E ok \in BOOLEAN :
         /\ posts' = Append(posts, EphemeralPost(requestDetails.responseUrl, ok))
         /\ response' = IF ok THEN Execution("SUCCEEDED", "")
                        ELSE Execution("FAILED", "Failed to update message in Slack channel")
    /\ pc' = "done"
    /\ UNCHANGED <<event, nowMs, verifyResult, requestDetails, getParameterResult,
                   getUserResult, trace, failedAt, ssmReads, ddbReads, dispatched>>
    /\ UNCHANGED <<triggered, errorLog>>
    /\ UNCHANGED <<run, proc, racing, rendered, transport>>

----------------------------------------------------------------------------

Next ==
    \/ Receive
    \/ Return
    \/ InlineVerify
    \/ InlineVerifyChannel
    \/ InlineVerifyUser
    \/ InlineVerifyPermission
    \/ InlineProcessCommand
    \/ BoltReceiver
    \/ BoltVerifyChannel
    \/ BoltVerifyUser
    \/ BoltVerifyPermission
    \/ BoltNext
    \/ SMValidateSlackMessage
    \/ SMGetChannelId
    \/ SMValidateChannelId
    \/ SMGetSlackUser
    \/ SMValidateSlackUser
    \/ SMFilterUserActions
    \/ SMMapUserActions
    \/ SMSendToCommandEventBus
    \/ SMUnauthorizedUserMessage

Spec == Init /\ [][Next]_vars

----------------------------------------------------------------------------
(* The run of a submitted job *)

requestVars == <<pc, event, nowMs, verifyResult, requestDetails, getParameterResult,
                 getUserResult, trace, failedAt, ssmReads, ddbReads, dispatched,
                 response, posts, triggered, errorLog>>

UpdateFailure == "Failed to update message in Slack channel"

\* the submit action that an implementation handles for a job
SubmitAction(impl, job) ==
    IF job = "lambda" THEN SAMPLE_LAMBDA_SUBMIT
    ELSE IF impl = "processor" THEN SAMPLE_SM_SUBMIT ELSE SAMPLE_SFN_SUBMIT

\* a run that starts with the post of the running message everywhere
FirstRunStep_postFirst(impl) ==
    CASE impl = "inline" -> "submit_post"
      [] impl = "bolt" -> "submit_post"
      [] impl = "processor" -> "proc_running"

\* the first step of a run: the inline handleActionSubmit posts the running
\* message first, the Bolt one and the processors delete the form first
FirstRunStep(impl) ==
    CASE impl = "inline" -> "submit_post"
      [] impl = "bolt" -> "submit_delete"
      [] impl = "processor" -> "proc_delete"

\* the run has ended by a throw (or a failed execution)
Threw(r, message) ==
    [r EXCEPT !.pc = "ended", !.end = "threw", !.error = <<message>>]

\* the run has ended by a normal return (or a succeeded execution)
Returned(r) == [r EXCEPT !.pc = "ended", !.end = "returned"]

\* An authorized submit request reaches its handler
RunStart ==
    /\ pc = "idle"
    /\ run = NoRun
    /\ \E impl \in Impls, job \in Jobs, v \in InputValues :
         /\ racing # NoRun => impl = racing.impl
         /\ run' = [NoRun EXCEPT
                      !.impl = impl, !.job = job, !.pc = FirstRunStep(impl),
                      !.detail = [action |-> SubmitAction(impl, job),
                                  channelId |-> PermittedChannelId,
                                  inputValue |-> inputValueOf(FormState(v)),
                                  responseUrl |-> ResponseUrl("lee")]]
    /\ UNCHANGED <<requestVars, proc, racing, rendered, transport>>

\* handleActionSubmit: axios.post('https://slack.com/api/chat.postMessage')
\* and the check of response.data.ok, or say(...) of the Bolt listener
SubmitPostRunning ==
    /\ run.pc = "submit_post"
    /\ \E reply \in Replies, ts \in NextTimestamps(racing.calls) :
         LET data == postMessageReply(reply, ts)
             call == Call("chat.postMessage", run.detail.channelId, data.ts,
                          buildStatusBlocks("running"), NoDetailsBlock, reply)
             r == [run EXCEPT !.calls = Append(@, call)]
         IN  run' = IF postFailed(reply)
                    THEN Threw(r, "Failed to post message to Slack channel")
                    ELSE [r EXCEPT !.postMessageResult = data,
                                   !.pc = IF run.impl = "inline" THEN "submit_delete"
                                          ELSE "submit_invoke"]
    /\ UNCHANGED <<requestVars, proc, racing, rendered, transport>>

\* handleActionSubmit: the post of { delete_original: true } to the response
\* URL, or respond(...) of the Bolt listener; the answer's body is not read
SubmitDeleteOriginal ==
    /\ run.pc = "submit_delete"
    /\ \E reply \in Replies :
         LET call == Call("response_url", "", "", "delete_original", NoDetailsBlock, reply)
             r == [run EXCEPT !.calls = Append(@, call)]
         IN  run' = IF reply = "http_error"
                    THEN Threw(r, TransportFailure)
                    ELSE [r EXCEPT !.pc = IF run.impl = "inline" THEN "submit_invoke"
                                          ELSE "submit_post"]
    /\ UNCHANGED <<requestVars, proc, racing, rendered, transport>>

\* handleActionSubmit: lambdaClient.invokeAsync(SERVICE_TRIGGER_NAME, serviceRequest)
SubmitInvokeAsync ==
    /\ run.pc = "submit_invoke"
    /\ run' = [run EXCEPT
                 !.serviceRequest = buildServiceRequest(run.detail.action,
                                                        run.detail.channelId,
                                                        run.detail.inputValue,
                                                        run.postMessageResult),
                 !.pc = "trigger_route"]
    /\ UNCHANGED <<requestVars, proc, racing, rendered, transport>>

\* service trigger, action 'sample-lambda/submit': lambdaClient.invoke inside
\* the try; a rejection is caught
TriggerInvokeLambda ==
    /\ run.pc = "trigger_route"
    /\ run.serviceRequest.action = SAMPLE_LAMBDA_SUBMIT
    /\ \E outcome \in JobOutcomes("lambda") :
         LET result == lambdaInvoke(outcome)
         IN  run' = [run EXCEPT
                       !.outcome = outcome,
                       !.invocations = Append(@, [job |-> "lambda",
                                                  payload |-> jobPayload("lambda", run.serviceRequest)]),
                       !.content = IF result.rejected THEN result.message
                                   ELSE toString(result.Payload),
                       !.pc = IF result.rejected THEN "trigger_error"
                              ELSE "trigger_success"]
    /\ UNCHANGED <<requestVars, proc, racing, rendered, transport>>

\* service trigger, action 'sample-sfn/submit': sfnClient.startExecution
TriggerStartExecution ==
    /\ run.pc = "trigger_route"
    /\ run.serviceRequest.action = SAMPLE_SFN_SUBMIT
    /\ \E outcome \in JobOutcomes("workflow") :
         run' = [run EXCEPT
                   !.outcome = outcome,
                   !.invocations = Append(@, [job |-> "workflow",
                                              payload |-> jobPayload("workflow", run.serviceRequest)]),
                   !.pc = "trigger_describe"]
    /\ UNCHANGED <<requestVars, proc, racing, rendered, transport>>

\* service trigger: describeExecution, the loop while the status is RUNNING
\* (a wait of 500 ms, then the next describeExecution) and the throw when
\* the terminal status is not SUCCEEDED
TriggerDescribeExecution ==
    /\ run.pc = "trigger_describe"
    /\ \E running \in BOOLEAN :
         /\ running => run.polls < MaxPolls
         /\ LET execution == describeExecution(run.outcome, running)
                r == [run EXCEPT !.reads = Append(@, [status |-> execution.status,
                                                      at |-> run.waited])]
            IN  run' = IF loopContinues(execution.status, run.polls)
                       THEN [r EXCEPT !.polls = @ + 1,
                                      !.waited = afterTimeout(@)]
                       ELSE IF execution.status # "SUCCEEDED"
                       THEN [r EXCEPT !.content = errorMessage(execution.output),
                                      !.pc = "trigger_error"]
                       ELSE [r EXCEPT !.content = toString(execution.output),
                                      !.pc = "trigger_success"]
    /\ UNCHANGED <<requestVars, proc, racing, rendered, transport>>

\* handleServiceSuccess, called inside the try of the service trigger: a
\* throw is caught there and leads to handleServiceError
handleServiceSuccess ==
    /\ run.pc = "trigger_success"
    /\ \E reply \in Replies :
         LET call == Call("chat.update", run.serviceRequest.channelId,
                          run.serviceRequest.messageTs, buildStatusBlocks("success"),
                          buildDetailsBlock(run.content), reply)
             r == [run EXCEPT !.calls = Append(@, call)]
         IN  run' = IF reply = "ok"
                    THEN Returned(r)
                    ELSE [r EXCEPT !.content = <<UpdateFailure>>,
                                   !.pc = "trigger_error"]
    /\ UNCHANGED <<requestVars, proc, racing, rendered, transport>>

\* handleServiceError, called in the catch of the service trigger: a throw
\* leaves the handler
handleServiceError ==
    /\ run.pc = "trigger_error"
    /\ \E reply \in Replies :
         LET call == Call("chat.update", run.serviceRequest.channelId,
                          run.serviceRequest.messageTs, buildStatusBlocks("failed"),
                          buildDetailsBlock(run.content), reply)
             r == [run EXCEPT !.calls = Append(@, call)]
         IN  run' = IF reply = "ok" THEN Returned(r) ELSE Threw(r, UpdateFailure)
    /\ UNCHANGED <<requestVars, proc, racing, rendered, transport>>

\* submit processor, 'Delete Form Message'
DeleteFormMessage ==
    /\ run.pc = "proc_delete"
    /\ \E reply \in Replies :
         LET call == Call("response_url", "", "", "delete_original", NoDetailsBlock, reply)
             r == [run EXCEPT !.calls = Append(@, call)]
         IN  run' = IF httpsClientFailed(reply)
                    THEN Threw(r, UpdateFailure)
                    ELSE [r EXCEPT !.pc = "proc_running"]
    /\ UNCHANGED <<requestVars, proc, racing, rendered, transport>>

\* submit processor, 'Send Running Status Message to Slack': the answer is
\* kept at $.postMessageResult
SendRunningStatusMessage ==
    /\ run.pc = "proc_running"
    /\ \E reply \in Replies, ts \in NextTimestamps(racing.calls) :
         LET data == postMessageReply(reply, ts)
             call == Call("chat.postMessage", run.detail.channelId, data.ts,
                          buildStatusBlocks("running"), NoDetailsBlock, reply)
             r == [run EXCEPT !.calls = Append(@, call)]
         IN  run' = IF httpsClientFailed(reply)
                    THEN Threw(r, UpdateFailure)
                    ELSE [r EXCEPT !.postMessageResult = data,
                                   !.pc = IF run.job = "lambda" THEN "proc_lambda"
                                          ELSE "proc_workflow"]
    /\ UNCHANGED <<requestVars, proc, racing, rendered, transport>>

\* submit processor, 'Execute Lambda Function' with the retry that the
\* construct adds and its catch of States.ALL
ExecuteLambdaFunction ==
    /\ run.pc = "proc_lambda"
    /\ \E outcome \in JobOutcomes("lambda")
                      \cup {[kind |-> "serviceException",
                             text |-> "Lambda.ServiceException"]} :
         LET result == taskResult(outcome)
             r == [run EXCEPT
                     !.outcome = outcome,
                     !.invocations = Append(@, [job |-> "lambda",
                                                payload |-> jobPayload("lambda", run.detail)])]
         IN  run' = IF retryOnServiceExceptions(outcome, run.attempts)
                    THEN [r EXCEPT !.attempts = @ + 1]
                    ELSE [r EXCEPT
                            !.content = result.content,
                            !.pc = IF result.failed THEN "proc_failure"
                                   ELSE "proc_success"]
    /\ UNCHANGED <<requestVars, proc, racing, rendered, transport>>

\* submit processor, 'Execute State Machine' (RUN_JOB) with its catch of
\* States.ALL
ExecuteStateMachine ==
    /\ run.pc = "proc_workflow"
    /\ \E outcome \in JobOutcomes("workflow") :
         LET result == taskResult(outcome)
         IN  run' = [run EXCEPT
                       !.outcome = outcome,
                       !.invocations = Append(@, [job |-> "workflow",
                                                  payload |-> jobPayload("workflow", run.detail)]),
                       !.content = result.content,
                       !.pc = IF result.failed THEN "proc_failure" ELSE "proc_success"]
    /\ UNCHANGED <<requestVars, proc, racing, rendered, transport>>

\* submit processor, 'Send Success Status Message to Slack'
SendSuccessStatusMessage ==
    /\ run.pc = "proc_success"
    /\ \E reply \in Replies :
         LET call == Call("chat.update", run.detail.channelId, run.postMessageResult.ts,
                          buildStatusBlocks("success"), buildDetailsBlock(run.content),
                          reply)
             r == [run EXCEPT !.calls = Append(@, call)]
         IN  run' = IF httpsClientFailed(reply) THEN Threw(r, UpdateFailure)
                    ELSE Returned(r)
    /\ UNCHANGED <<requestVars, proc, racing, rendered, transport>>

\* submit processor, 'Send Failure Status Message to Slack'
SendFailureStatusMessage ==
    /\ run.pc = "proc_failure"
    /\ \E reply \in Replies :
         LET call == Call("chat.update", run.detail.channelId, run.postMessageResult.ts,
                          buildStatusBlocks("failed"), buildDetailsBlock(run.content),
                          reply)
             r == [run EXCEPT !.calls = Append(@, call)]
         IN  run' = IF httpsClientFailed(reply) THEN Threw(r, UpdateFailure)
                    ELSE Returned(r)
    /\ UNCHANGED <<requestVars, proc, racing, rendered, transport>>

NextRun ==
    \/ RunStart
    \/ SubmitPostRunning
    \/ SubmitDeleteOriginal
    \/ SubmitInvokeAsync
    \/ TriggerInvokeLambda
    \/ TriggerStartExecution
    \/ TriggerDescribeExecution
    \/ handleServiceSuccess
    \/ handleServiceError
    \/ DeleteFormMessage
    \/ SendRunningStatusMessage
    \/ ExecuteLambdaFunction
    \/ ExecuteStateMachine
    \/ SendSuccessStatusMessage
    \/ SendFailureStatusMessage

SpecRun == Init /\ [][NextRun]_vars

\* the handler keeps running: a step that is possible is eventually taken
SpecRunFair == SpecRun /\ WF_vars(NextRun)

----------------------------------------------------------------------------
(* Two submits that race: each is handled by an invocation, or a state     *)
(* machine execution, of its own, and their steps interleave               *)

\* runs that keep the message reference in a place that they share
Switch_shared ==
    /\ run # NoRun \/ racing # NoRun
    /\ run' = [racing EXCEPT !.postMessageResult = run.postMessageResult,
                             !.serviceRequest = run.serviceRequest]
    /\ racing' = run
    /\ UNCHANGED requestVars
    /\ UNCHANGED <<proc, rendered, transport>>

\* the other run takes the next steps: the submit of the same user in the
\* same channel is handled next to the first one
Switch ==
    /\ run # NoRun \/ racing # NoRun
    /\ run' = racing
    /\ racing' = run
    /\ UNCHANGED requestVars
    /\ UNCHANGED <<proc, rendered, transport>>

NextRace ==
    \/ RunStart
    \/ Switch
    \/ SubmitPostRunning
    \/ SubmitDeleteOriginal
    \/ SubmitInvokeAsync
    \/ TriggerInvokeLambda
    \/ TriggerStartExecution
    \/ TriggerDescribeExecution
    \/ handleServiceSuccess
    \/ handleServiceError
    \/ DeleteFormMessage
    \/ SendRunningStatusMessage
    \/ ExecuteLambdaFunction
    \/ ExecuteStateMachine
    \/ SendSuccessStatusMessage
    \/ SendFailureStatusMessage

SpecRace == Init /\ [][NextRace]_vars

----------------------------------------------------------------------------
(* The status renderer: buildStatusBlocks and buildDetailsBlocks, called   *)
(* once for every status message of every processor                        *)

\* a renderer that fills one block, made once, on every call
Render_shared ==
    /\ Len(rendered) < MaxRenders
    /\ \E status \in {"running", "success", "failed"},
          content \in {<<"some result">>, <<"{errorMessage:", "boom", "}">>} :
         rendered' = Append([i \in DOMAIN rendered |->
                               [rendered[i] EXCEPT
                                  !.document.status = buildStatusBlocks(status)]],
                            [status |-> status, content |-> content,
                             document |-> render(status, content)])
    /\ UNCHANGED <<requestVars, run, proc, racing, transport>>

\* one more status message is rendered: const block = { ... } is made anew
\* by every call, so the documents rendered before stay as they are
Render ==
    /\ Len(rendered) < MaxRenders
    /\ \E status \in {"running", "success", "failed"},
          content \in {<<"some result">>, <<"{errorMessage:", "boom", "}">>} :
         rendered' = Append(rendered, [status |-> status, content |-> content,
                                       document |-> render(status, content)])
    /\ UNCHANGED <<requestVars, run, proc, racing, transport>>

SpecRender == Init /\ [][Render]_vars

----------------------------------------------------------------------------
(* The https-client function that the state machines invoke for every      *)
(* message they post or update                                             *)

\* a function that takes every string that Slack answers for an acceptance
httpsClientHandler_anyString(secretResult, answer) ==
    IF secretResult \in {"fetch_failed", "not_json"}
    THEN [posts |-> 0, outcome |-> "threw", error |-> secretResult]
    ELSE IF answer.kind = "rejected"
    THEN [posts |-> 1, outcome |-> "threw", error |-> "AxiosError"]
    ELSE IF answer.kind = "null"
    THEN [posts |-> 1, outcome |-> "threw", error |-> "TypeError"]
    ELSE IF answer.kind = "string" \/ (answer.kind = "object" /\ answer.ok)
    THEN [posts |-> 1, outcome |-> "returned", error |-> ""]
    ELSE [posts |-> 1, outcome |-> "threw", error |-> UpdateFailure]

\* exports.handler of https-client: await getSecretValue and JSON.parse (a
\* throw of either ends the invocation before the request), one
\* axios.post (which rejects on a failed request), then
\* response.data === 'ok' || response.data.ok (a TypeError when data is
\* null), and the throw for every other answer
httpsClientHandler(secretResult, answer) ==
    IF secretResult \in {"fetch_failed", "not_json"}
    THEN [posts |-> 0, outcome |-> "threw", error |-> secretResult]
    ELSE IF answer.kind = "rejected"
    THEN [posts |-> 1, outcome |-> "threw", error |-> "AxiosError"]
    ELSE IF answer.kind = "null"
    THEN [posts |-> 1, outcome |-> "threw", error |-> "TypeError"]
    ELSE IF \/ answer.kind = "string" /\ answer.text = "ok"
            \/ answer.kind = "object" /\ answer.ok
    THEN [posts |-> 1, outcome |-> "returned", error |-> ""]
    ELSE [posts |-> 1, outcome |-> "threw", error |-> UpdateFailure]

\* a task of a state machine invokes the function: the secret is read or
\* not (a secret without bot token still gives a header), the remote answers
\* a string, an object with or without a truthy ok, null, or the request
\* fails; the task succeeds when the function returns and fails when it
\* throws
InvokeHttpsClient ==
    /\ Len(transport) < MaxCalls
    /\ \E secretResult \in {"ok", "no_token", "fetch_failed", "not_json"},
          answer \in {[kind |-> "string", text |-> "ok", ok |-> FALSE],
                        [kind |-> "string", text |-> "invalid_auth", ok |-> FALSE],
                        [kind |-> "object", text |-> "", ok |-> TRUE],
                        [kind |-> "object", text |-> "", ok |-> FALSE],
                        [kind |-> "null", text |-> "", ok |-> FALSE],
                        [kind |-> "rejected", text |-> "", ok |-> FALSE]} :
         LET end == httpsClientHandler(secretResult, answer)
         IN  transport' = Append(transport,
                 [secretResult |-> secretResult, response |-> answer,
                  posts |-> end.posts, outcome |-> end.outcome, error |-> end.error,
                  task |-> IF end.outcome = "returned"
                           THEN "TaskSucceeded" ELSE "TaskFailed"])
    /\ UNCHANGED <<requestVars, run, proc, racing, rendered>>

SpecTransport == Init /\ [][InvokeHttpsClient]_vars

----------------------------------------------------------------------------
(* The handlers that keep a Bolt receiver: exports.handler, initBolt and   *)
(* configureApp of slack-auth, of auth-processor and of the Bolt handler   *)
(* of unnamed/part_001. An await is a point where another invocation of    *)
(* the process may take its steps.                                         *)

\* the process loads the module of one of the functions that keep a Bolt
\* receiver and app in module variables
LoadModule ==
    /\ proc.module = "none"
    /\ \E m \in {"slack-auth", "bolt", "auth-processor"} :
         proc' = [proc EXCEPT !.module = m]
    /\ UNCHANGED <<requestVars, run, racing, rendered, transport>>

\* a handler that initializes on every invocation
HandlerEnter_always(i) ==
    /\ proc.module # "none"
    /\ proc.inv[i].pc = "none"
    /\ proc.served < MaxInvocations
    /\ \E ev \in ProcEvents :
         LET others == {j \in Slots \ {i} : InFlight(proc.inv[j])}
             entered == [NoInvocation EXCEPT
                           !.event = ev,
                           !.overlapped = (others # {}),
                           !.pc = "initBolt"]
         IN  proc' = [proc EXCEPT
                        !.requestDetails = IF proc.module = "slack-auth"
                                           THEN NoDetails ELSE @,
                        !.served = @ + 1,
                        !.overlaps = IF others # {} THEN @ + 1 ELSE @,
                        !.inv = [j \in Slots |->
                                   IF j = i THEN entered
                                   ELSE IF j \in others
                                        THEN [proc.inv[j] EXCEPT !.overlapped = TRUE]
                                        ELSE proc.inv[j]]]
    /\ UNCHANGED <<requestVars, run, racing, rendered, transport>>

\* exports.handler up to its first await: requestDetails = null (slack-auth),
\* if (!awsLambdaReceiver) ...
HandlerEnter(i) ==
    /\ proc.module # "none"
    /\ proc.inv[i].pc = "none"
    /\ proc.served < MaxInvocations
    /\ \E ev \in ProcEvents :
         LET others == {j \in Slots \ {i} : InFlight(proc.inv[j])}
             entered == [NoInvocation EXCEPT
                           !.event = ev,
                           !.overlapped = (others # {}),
                           !.pc = IF proc.awsLambdaReceiver = "null"
                                  THEN "initBolt" ELSE "start"]
         IN  proc' = [proc EXCEPT
                        !.requestDetails = IF proc.module = "slack-auth"
                                           THEN NoDetails ELSE @,
                        !.served = @ + 1,
                        !.overlaps = IF others # {} THEN @ + 1 ELSE @,
                        !.inv = [j \in Slots |->
                                   IF j = i THEN entered
                                   ELSE IF j \in others
                                        THEN [proc.inv[j] EXCEPT !.overlapped = TRUE]
                                        ELSE proc.inv[j]]]
    /\ UNCHANGED <<requestVars, run, racing, rendered, transport>>

\* initBolt after await secretsClient.getSecretValue(...).promise(): the
\* secret holds both values, the read fails, or the secret holds no bot
\* token (the App constructor throws before it binds the receiver)
InitBolt(i) ==
    /\ proc.inv[i].pc = "initBolt"
    /\ \E secret \in {"ok", "fetch_failed", "no_token"} :
         proc' = CASE secret = "fetch_failed" ->
                        [proc EXCEPT !.inv[i].pc = "threw",
                                     !.inv[i].error = "getSecretValue"]
                   [] secret = "no_token" ->
                        [proc EXCEPT !.awsLambdaReceiver = "receiver",
                                     !.receiverApp = FALSE,
                                     !.inv[i].pc = "threw",
                                     !.inv[i].error = "AppInitializationError"]
                   [] secret = "ok" ->
                        [proc EXCEPT !.awsLambdaReceiver = "receiver",
                                     !.app = "app",
                                     !.receiverApp = TRUE,
                                     !.middleware = 0,
                                     !.initBolt = @ + 1,
                                     !.inv[i].pc = "configureApp"]
    /\ UNCHANGED <<requestVars, run, racing, rendered, transport>>

\* configureApp, called when await initBolt() has resumed
ConfigureApp(i) ==
    /\ proc.inv[i].pc = "configureApp"
    /\ proc' = IF proc.app = "null"
               THEN [proc EXCEPT !.inv[i].pc = "threw",
                                 !.inv[i].error = "Bolt app not initialized"]
               ELSE [proc EXCEPT !.middleware = @ + 1,
                                 !.configureApp = @ + 1,
                                 !.inv[i].pc = "start"]
    /\ UNCHANGED <<requestVars, run, racing, rendered, transport>>

\* await awsLambdaReceiver.start(); handler(event, context, callback) up to
\* the middleware: the receiver answers 401 to a request that it does not
\* verify and 404 when no middleware acknowledges the request
ReceiverStart(i) ==
    /\ proc.inv[i].pc = "start"
    /\ proc' = IF ~boltVerifies(proc.inv[i].event, SigningSecret, BaseNowMs)
               THEN [proc EXCEPT !.inv[i].statusCode = 401, !.inv[i].pc = "check"]
               ELSE IF ~proc.receiverApp \/ proc.middleware = 0
               THEN [proc EXCEPT !.inv[i].statusCode = 404, !.inv[i].pc = "check"]
               ELSE [proc EXCEPT !.inv[i].pc = "middleware"]
    /\ UNCHANGED <<requestVars, run, racing, rendered, transport>>

\* a middleware that keeps the request details to itself
Middleware_local(i) ==
    /\ proc.inv[i].pc = "middleware"
    /\ proc' = [proc EXCEPT !.inv[i].statusCode = 200, !.inv[i].pc = "check"]
    /\ UNCHANGED <<requestVars, run, racing, rendered, transport>>

\* the middleware after await ack(): requestDetails = parseRequest(body), a
\* module variable in slack-auth and a constant of the middleware elsewhere
Middleware(i) ==
    /\ proc.inv[i].pc = "middleware"
    /\ proc' = [proc EXCEPT
                  !.requestDetails =
                      IF proc.module = "slack-auth"
                      THEN parseRequestSlackAuth(proc.inv[i].event.body) ELSE @,
                  !.inv[i].statusCode = 200,
                  !.inv[i].pc = "check"]
    /\ UNCHANGED <<requestVars, run, racing, rendered, transport>>

\* a handler that returns requestDetails whatever the status of the response
HandlerReturn_unchecked(i) ==
    /\ proc.inv[i].pc = "check"
    /\ proc' = [proc EXCEPT
                  !.inv[i].result = IF proc.module = "slack-auth"
                                    THEN proc.requestDetails ELSE @,
                  !.inv[i].pc = "returned"]
    /\ UNCHANGED <<requestVars, run, racing, rendered, transport>>

\* exports.handler after await handler(...): slack-auth throws unless the
\* status is 200 and returns requestDetails; the others return the response
HandlerReturn(i) ==
    /\ proc.inv[i].pc = "check"
    /\ proc' = IF proc.module = "slack-auth" /\ proc.inv[i].statusCode # 200
               THEN [proc EXCEPT !.inv[i].pc = "threw",
                                 !.inv[i].error = SlackAuthError]
               ELSE [proc EXCEPT
                       !.inv[i].result = IF proc.module = "slack-auth"
                                         THEN proc.requestDetails ELSE @,
                       !.inv[i].pc = "returned"]
    /\ UNCHANGED <<requestVars, run, racing, rendered, transport>>

\* the invocation has ended
InvocationEnd(i) ==
    /\ proc.inv[i].pc \in {"returned", "threw"}
    /\ proc' = [proc EXCEPT !.inv[i] = NoInvocation]
    /\ UNCHANGED <<requestVars, run, racing, rendered, transport>>

NextProc ==
    \/ LoadModule
    \/ \E i \in Slots : HandlerEnter(i)
    \/ \E i \in Slots : InitBolt(i)
    \/ \E i \in Slots : ConfigureApp(i)
    \/ \E i \in Slots : ReceiverStart(i)
    \/ \E i \in Slots : Middleware(i)
    \/ \E i \in Slots : HandlerReturn(i)
    \/ \E i \in Slots : InvocationEnd(i)

SpecProc == Init /\ [][NextProc]_vars

----------------------------------------------------------------------------
(* Vocabulary of the properties *)

\* the request as sent: its action, its sender's record, its signature
ActionOf(body) == IF body.kind = "command" THEN WELCOME ELSE body.action_id

RecordOf(ev) == lookup(ev.body.user_name)

Authentic(ev) ==
    /\ ev.sig.type = "string"
    /\ Len(ev.sig.parts) >= 2
    /\ ev.sig.parts[2] = hmacDigest(SigningSecret, ev.sig.parts[1], ev.ts, ev.body)

\* the permission match of the authorization gate
PermissionMatch(action, item) ==
    \/ action = WELCOME
    \/ \E p \in item.vals : actionBaseOf(action) = p \/ startsWith(action, p)

\* the permitted set of the sender as the entry point's store access
\* yields it: the string set for the state machine, the list otherwise
PermittedSet(ev) ==
    IF RecordOf(ev).type = (IF ev.entry = "sm" THEN "SS" ELSE "L")
    THEN RecordOf(ev).vals
    ELSE {}

CheckOrder == <<"signature", "channel", "user", "permission">>

IsSubmit(action) ==
    Len(action) >= 3 /\ SubSeq(action, Len(action) - 1, Len(action)) = <<"/", "submit">>

\* verification time in whole seconds, as the verifier reads the clock
NowSec == nowMs \div 1000

Verified == event.entry = "inline" /\ verifyResult # ""

IsInteger(ts) == ts.type = "string" /\ ts.numeric

Stale(ts) == IsInteger(ts) /\ ts.num < NowSec - FiveMinutesSec

Fresh(ts) == IsInteger(ts) /\ ts.num >= NowSec - FiveMinutesSec

NoDigestPart(sig) ==
    sig.type = "string" /\ (Len(sig.parts) < 2 \/ sig.parts[2] = EmptyString)

UnsignedOrGarbled(ev) == ev.sig.type = "undefined" \/ NoDigestPart(ev.sig)

GenericDenialSent ==
    IF event.entry = "inline"
    THEN response = generateResponse(<<UnauthorizedText>>) /\ posts = <<>>
    ELSE /\ Len(posts) = 1
         /\ posts[1].text = UnauthorizedText
         /\ posts[1].response_type = "ephemeral"
         /\ posts[1].url = event.body.response_url

----------------------------------------------------------------------------
(* Properties *)

\* C1: in each entry point a request is handed to command processing only
\* if its signature verified, its channel is the permitted channel, a
\* permission record exists for its user and the permission match passed;
\* the checks run in that order and the first failing check ends the
\* pipeline.
C1_GateBeforeDispatch ==
    /\ startsWith(CheckOrder, trace)
    /\ dispatched =>
         /\ Authentic(event)
         /\ event.body.channel_id = PermittedChannelId
         /\ event.body.user_name \in KnownUsers
         /\ PermissionMatch(ActionOf(event.body), RecordOf(event))
         /\ trace = CheckOrder
         /\ failedAt = "none"
    /\ failedAt \in {"signature", "channel", "user", "permission"} =>
         /\ ~dispatched
         /\ failedAt = CheckOrder[Len(trace) + 1]
         /\ pc \in {"done", "sm_unauthorized"}

C1_Witness ==
    /\ pc = "done" /\ dispatched /\ event.entry = "sm"
    /\ ActionOf(event.body) = SAMPLE_LAMBDA_SUBMIT

\* C2 (as claimed): a welcome request of a known user that passed the
\* signature and channel checks is always authorized and dispatched,
\* whatever the permitted set.
C2_WelcomeAlwaysDispatched ==
    ( /\ pc = "done"
      /\ Len(trace) >= 2
      /\ event.body.user_name \in KnownUsers
      /\ ActionOf(event.body) = WELCOME )
    => dispatched

C4_StaleRejected ==
    (Verified /\ Stale(event.ts)) =>
        /\ verifyResult = ErrStale
        /\ pc = "done"
        /\ ~dispatched
        /\ ssmReads = 0 /\ ddbReads = 0

C4_Witness ==
    /\ Verified /\ Stale(event.ts) /\ Authentic(event)
    /\ event.sig.parts[1] = "v0"
    /\ verifyResult = ErrStale

\* C5 (as claimed): verification fails with the timestamp-type error
\* whenever the timestamp header is not a valid integer.
C5_MalformedTimestampRejected ==
    (Verified /\ ~IsInteger(event.ts)) => verifyResult = ErrTimestampType

\* C6: a request is rejected as stale exactly when its timestamp is below
\* the verification time (in whole seconds) minus 300; a timestamp equal to
\* that bound, or in the future, is not rejected as stale.
C6_StaleExactly ==
    Verified => (verifyResult = ErrStale <=> Stale(event.ts))

C6_Witness ==
    /\ Verified
    /\ IsInteger(event.ts) /\ event.ts.num = NowSec - FiveMinutesSec
    /\ verifyResult = Ok

\* C7: with a fresh timestamp and the supported version, verification
\* accepts the request if and only if the supplied digest is the HMAC of
\* "v0:{timestamp}:{body}" under the signing secret; every other digest,
\* among them one computed over a different body, gives 'Signature
\* mismatch'.
C7_AcceptIffHmac ==
    ( /\ Verified
      /\ Fresh(event.ts)
      /\ event.sig.type = "string"
      /\ event.sig.parts[1] = "v0" )
    => /\ verifyResult = Ok <=>
             /\ Len(event.sig.parts) >= 2
             /\ event.sig.parts[2] = hmacDigest(SigningSecret, "v0", event.ts, event.body)
       /\ verifyResult \in {Ok, ErrMismatch}

C7_Witness ==
    /\ Verified /\ Fresh(event.ts)
    /\ event.sig = SigString(<<"v0", hmacDigest(SigningSecret, "v0", event.ts, Tamper(event.body))>>)
    /\ verifyResult = ErrMismatch

\* C8 (as claimed): with a fresh timestamp, verification fails with
\* 'Signature mismatch' when the signature header is absent or has no
\* digest part, and with 'Unknown signature version' when the version part
\* is not the supported one.
C8_SignatureErrorKinds ==
    (Verified /\ Fresh(event.ts)) =>
        /\ event.sig.type = "undefined" => verifyResult = ErrMismatch
        /\ (NoDigestPart(event.sig) /\ event.sig.parts[1] = "v0") => verifyResult = ErrMismatch
        /\ (event.sig.type = "string" /\ event.sig.parts[1] # "v0") => verifyResult = ErrVersion

C10_WrongChannelDenied ==
    (verifyResult = Ok /\ event.body.channel_id # PermittedChannelId) =>
        /\ ddbReads = 0
        /\ ~dispatched
        /\ pc = "done" => GenericDenialSent

C10_Witness ==
    /\ pc = "done" /\ event.entry = "sm"
    /\ verifyResult = Ok /\ event.body.channel_id # PermittedChannelId
    /\ Len(posts) = 1 /\ posts[1].ok

\* C11: the outcome of a denied request does not tell which of the three
\* authorization steps failed: a request denied by the channel check, by
\* the user lookup or by the permission match gets the same text and the
\* same termination, which depend only on the entry point and on whether
\* the transport accepted the message.
C11_UniformDenial ==
    (pc = "done" /\ failedAt \in {"channel", "user", "permission"}) =>
        /\ GenericDenialSent
        /\ response =
             CASE event.entry = "inline" -> generateResponse(<<UnauthorizedText>>)
               [] event.entry = "sm" ->
                    IF posts[1].ok THEN Execution("SUCCEEDED", "")
                    ELSE Execution("FAILED", "Failed to update message in Slack channel")
               [] event.entry = "bolt" ->
                    IF posts[1].ok THEN BoltAckResponse
                    ELSE [kind |-> "http", statusCode |-> 500, body |-> <<>>]

C11_Witness ==
    /\ pc = "done" /\ failedAt = "user" /\ event.entry = "inline"
    /\ response = generateResponse(<<UnauthorizedText>>)

\* the handling ended as a system fault: a failed execution or an answer
\* that is not a success status
FaultEnd ==
    \/ response.kind = "execution" /\ response.body[1] = "FAILED"
    \/ response.kind = "http" /\ response.statusCode >= 400

\* a denial message for the requester was issued: in the body of the inline
\* handler's answer, or as a post to the response URL
DenialMessageIssued ==
    IF event.entry = "inline"
    THEN /\ response.kind = "http"
         /\ response.body[1] \in {VerificationFailurePrefix, UnauthorizedText}
    ELSE /\ Len(posts) = 1
         /\ posts[1].url = requestDetails.responseUrl

\* C12 as stated: in the inline handler and in the state machine, every
\* verification error and every authorization error is recovered into a
\* denial message for the requester, and the handling does not end as a
\* system fault (unless the transport refuses the message itself).
C12_AllErrorsRecovered ==
    (/\ pc = "done"
     /\ event.entry \in {"inline", "sm"}
     /\ failedAt \in {"signature", "channel", "user", "permission"}) =>
        /\ DenialMessageIssued
        /\ FaultEnd => (Len(posts) = 1 /\ ~posts[1].ok)

\* C12, amended: the inline handler recovers every verification error and
\* every authorization error into an answer with status 200 that carries a
\* denial message.  The state machine recovers an authorization error into
\* the unauthorized message, and its execution fails only when that post is
\* refused; a verification error is not recovered there: slack-auth throws,
\* the execution ends in the Fail state and nothing is sent to the requester.
C12_ErrorRecovery ==
    (/\ pc = "done"
     /\ event.entry \in {"inline", "sm"}
     /\ failedAt \in {"signature", "channel", "user", "permission"}) =>
        IF event.entry = "inline"
        THEN DenialMessageIssued /\ response.statusCode = 200 /\ ~FaultEnd
        ELSE IF failedAt = "signature"
             THEN /\ verifyResult = SlackAuthError
                  /\ response = Execution("FAILED", "Validate Slack Message Failure")
                  /\ posts = <<>>
             ELSE /\ GenericDenialSent
                  /\ DenialMessageIssued
                  /\ FaultEnd <=> ~posts[1].ok

C12_Witness ==
    /\ pc = "done" /\ event.entry = "sm" /\ failedAt = "permission"
    /\ Len(posts) = 1 /\ posts[1].ok
    /\ response = Execution("SUCCEEDED", "")

\* what the caller of the webhook receives once the handling is done: the
\* handler's own answer, or the API's integration response for the state
\* machine
WebhookAnswer ==
    IF event.entry = "sm" THEN integrationResponses(response) ELSE response

\* C13 as stated: the inbound webhook (inline handler, or the API in front
\* of the state machine) answers every request with HTTP status 200.
C13_AlwaysStatus200 ==
    (pc = "done" /\ event.entry \in {"inline", "sm"}) =>
        WebhookAnswer.statusCode = 200

\* C13, amended: the inline handler answers every request with status 200,
\* accepted, denied at any step or failed during command processing; the
\* API in front of the state machine answers every request with status 204
\* and an empty body, whatever the outcome of the execution.
C13_WebhookStatus ==
    (pc = "done" /\ event.entry \in {"inline", "sm"}) =>
        /\ WebhookAnswer.kind = "http"
        /\ WebhookAnswer.statusCode = IF event.entry = "inline" THEN 200 ELSE 204
        /\ event.entry = "sm" => WebhookAnswer.body = <<>>

C13_Witness ==
    /\ pc = "done" /\ event.entry = "inline" /\ failedAt = "permission"
    /\ WebhookAnswer.statusCode = 200

\* C14: an authorized request whose action has no registered handler is
\* never dropped in silence: 'Unhandled action received' is reported, or
\* the handling ends as a fault (inline handler and state machine).
C14_UnknownActionSurfaced ==
    (/\ pc = "done" /\ dispatched
     /\ event.entry \in {"inline", "sm"}
     /\ triggered = {}) =>
        \/ \E i \in 1..Len(errorLog) : errorLog[i] = UnhandledAction
        \/ FaultEnd

\* the one handler that a dispatch started has this kind and serves this
\* action base
TriggeredOnly(kind, base) ==
    /\ Cardinality(triggered) = 1
    /\ \A h \in triggered : h.kind = kind /\ h.actionBase = base

\* C15: routing is a mapping on the action string: "welcome" starts the
\* Welcome handler, "sample-lambda" the Form handler and
\* "sample-lambda/submit" the Submit handler of the job with action base
\* "sample-lambda"; no dispatched action starts more than one handler.
C15_RoutingByAction ==
    (pc = "done" /\ dispatched) =>
        /\ Cardinality(triggered) <= 1
        /\ requestDetails.action = WELCOME => TriggeredOnly("Welcome", WELCOME)
        /\ requestDetails.action = SAMPLE_LAMBDA => TriggeredOnly("Form", SAMPLE_LAMBDA)
        /\ requestDetails.action = SAMPLE_LAMBDA_SUBMIT =>
               /\ TriggeredOnly("Submit", SAMPLE_LAMBDA)
               /\ \A h \in triggered : h.name = "Sample Lambda"

C15_Witness ==
    /\ pc = "done" /\ dispatched /\ event.entry = "sm"
    /\ requestDetails.action = SAMPLE_LAMBDA_SUBMIT
    /\ TriggeredOnly("Submit", SAMPLE_LAMBDA)

\* the status-update calls and the "running" posts of the run, by position
\* in the sequence of its calls to Slack
Updates == {i \in 1..Len(run.calls) : run.calls[i].api = "chat.update"}
RunningPosts == {i \in 1..Len(run.calls) : run.calls[i].api = "chat.postMessage"}
PostedRunning == {j \in RunningPosts : run.calls[j].reply = "ok"}

\* C16: in every run the "running" message is posted and its reference
\* captured before any success or failure update is attempted: an update
\* call is issued only after a "running" post that Slack accepted, and with
\* the reference of that post in hand.
C16_RunningBeforeUpdate ==
    \A i \in Updates :
        /\ \E j \in PostedRunning : j < i
        /\ run.postMessageResult.ok
        /\ run.postMessageResult.ts \in MessageTimestamps

C16_Witness ==
    /\ run.impl = "inline" /\ run.pc = "ended"
    /\ Updates # {}
    /\ \E j \in PostedRunning : \A i \in Updates : j < i

\* C17: every success or failure update of a run targets the channel and
\* the timestamp of the message that the run's own "running" post created.
C17_UpdateTargetsOwnPost ==
    \A i \in Updates :
        \E j \in PostedRunning :
            /\ run.calls[i].channel = run.calls[j].channel
            /\ run.calls[i].ts = run.calls[j].ts

C17_Witness ==
    /\ run.impl = "bolt" /\ run.pc = "ended"
    /\ \E i \in Updates, j \in PostedRunning :
         /\ run.calls[i].ts = run.calls[j].ts
         /\ run.calls[j].ts = "1700000000.000200"

\* C18: in every run, transport failures included, at most one "running"
\* message is posted (exactly one once the job has been started) and at
\* most one status-update call, success or failed, is issued.
C18_OncePerTransition ==
    /\ Cardinality(RunningPosts) <= 1
    /\ run.invocations # <<>> => Cardinality(RunningPosts) = 1
    /\ Cardinality(Updates) <= 1

\* C19: when a status-update call is refused, the handling of the run ends
\* with an error: no further call to Slack follows the refused update, and
\* the handler does not return normally.
C19_UpdateFailureEndsRun ==
    \A i \in Updates :
        run.calls[i].reply # "ok" =>
            /\ i = Len(run.calls)
            /\ run.pc = "ended" => run.end = "threw"

\* the job of the run raised an error: the function failed or could not be
\* invoked, or the workflow reached a terminal status other than SUCCEEDED
JobRaisedError ==
    run.outcome.kind \in {"functionError", "invokeError", "FAILED", "TIMED_OUT"}

Contains(chunks, text) == \E k \in 1..Len(chunks) : chunks[k] = text

\* C20: whenever the job of a run raises an error, the run's status message
\* is updated to "failed", with a details block that contains the error's
\* message or cause, and is not updated to "success".
C20_JobErrorShownAsFailed ==
    (run.pc = "ended" /\ JobRaisedError) =>
        /\ Updates # {}
        /\ \A i \in Updates :
             /\ run.calls[i].status = buildStatusBlocks("failed")
             /\ Contains(run.calls[i].details, run.outcome.text)

\* the job of the run returned a result
JobSucceeded == run.outcome.kind \in {"success", "SUCCEEDED"}

FormDeletes ==
    {d \in 1..Len(run.calls) :
        /\ run.calls[d].api = "response_url"
        /\ run.calls[d].status = "delete_original"
        /\ run.calls[d].reply # "http_error"}

\* C22: on a submit, the deletion of the ephemeral form has been requested
\* and a new "running" status message has been posted before the job is
\* triggered.
C22_DeleteAndRunningBeforeJob ==
    run.invocations # <<>> =>
        /\ FormDeletes # {}
        /\ PostedRunning # {}
        /\ \A j \in PostedRunning :
             run.calls[j].status = buildStatusBlocks("running")

C22_Witness ==
    /\ run.impl = "inline" /\ Len(run.invocations) = 1
    /\ 1 \in PostedRunning /\ 2 \in FormDeletes

\* the run is one of the service trigger for a workflow job
WorkflowPolling == run.impl \in {"inline", "bolt"} /\ run.job = "workflow"

\* the status that the last describeExecution returned
LastRead == run.reads[Len(run.reads)]

TransportSucceeded == \A i \in 1..Len(run.calls) : run.calls[i].reply = "ok"

\* as long as the last status read is RUNNING the service trigger is still
\* in its loop: it has issued no update and has not ended
StillPolling ==
    (WorkflowPolling /\ run.reads # <<>> /\ LastRead.status = "RUNNING") =>
        /\ run.pc = "trigger_describe"
        /\ Updates = {}
        /\ run.end = ""

\* a workflow run that ended with every call accepted has issued exactly
\* one status update and returned
OneTerminalUpdate ==
    (WorkflowPolling /\ run.pc = "ended" /\ TransportSucceeded /\ run.reads # <<>>) =>
        /\ Cardinality(Updates) = 1
        /\ run.end = "returned"

C25_NoRetry ==
    /\ Len(run.invocations) <= 1
    /\ \A i, j \in 1..Len(run.calls) :
         (/\ i < j
          /\ run.calls[i].api = run.calls[j].api) =>
             run.calls[i].status # run.calls[j].status


\* the statement of C26 as made: over every interleaving of the invocations
\* of a process, initBolt and configureApp each complete at most once
C26_InitOnceUnderInterleaving ==
    /\ proc.initBolt <= 1
    /\ proc.configureApp <= 1

\* C26: the receiver and the app are initialized at most once over the
\* invocations that a process serves one after the other, and are reused
\* from then on; every further completion of initBolt or configureApp
\* belongs to an invocation that entered while another one was in flight
\* (the test of awsLambdaReceiver and its assignment lie on the two sides
\* of an await).
C26_InitOncePerProcess ==
    /\ proc.initBolt <= 1 + proc.overlaps
    /\ proc.configureApp <= proc.initBolt
    /\ proc.overlaps = 0 => proc.initBolt <= 1
    /\ \A i \in Slots :
         (/\ proc.inv[i].pc \in {"initBolt", "configureApp"}
          /\ ~proc.inv[i].overlapped) =>
             proc.initBolt <= (IF proc.inv[i].pc = "initBolt" THEN 0 ELSE 1)

\* a third invocation is served by the receiver that the first one
\* built, no invocation having overlapped another
C26_Witness ==
    /\ proc.overlaps = 0
    /\ proc.served = 3
    /\ proc.initBolt = 1
    /\ proc.configureApp = 1
    /\ \E i \in Slots : proc.inv[i].pc = "returned"


\* the invocations of slack-auth that have returned request details
ReturnedDetails ==
    {i \in Slots : proc.module = "slack-auth" /\ proc.inv[i].pc = "returned"}

OwnDetails(i) == parseRequestSlackAuth(proc.inv[i].event.body)

\* the statement of C27 as made: under every interleaving, the details that
\* an invocation returns are those of its own request
C27_IndependentUnderInterleaving ==
    \A i \in ReturnedDetails : proc.inv[i].result = OwnDetails(i)

\* C27: the details that slack-auth returns for a request are those parsed
\* from that request's own body whenever no other invocation of the process
\* was in flight with it; the details pass through the module variable
\* requestDetails, which every invocation of the process resets and writes.
C27_IndependentRequests ==
    \A i \in ReturnedDetails :
        ~proc.inv[i].overlapped => proc.inv[i].result = OwnDetails(i)

\* the second of two invocations served one after the other returns the
\* details of its own interactive request
C27_Witness ==
    /\ proc.served = 2
    /\ proc.overlaps = 0
    /\ \E i \in ReturnedDetails :
         /\ proc.inv[i].event.body.kind = "interactive"
         /\ proc.inv[i].result = OwnDetails(i)
         /\ proc.inv[i].result.actionBase = SAMPLE_LAMBDA


\* the calls of a run that post a message which Slack accepted, and the
\* calls that update a message
PostsOf(r) ==
    {r.calls[i] : i \in {j \in 1..Len(r.calls) :
                           r.calls[j].api = "chat.postMessage" /\ r.calls[j].reply = "ok"}}

UpdatesOf(r) ==
    {r.calls[i] : i \in {j \in 1..Len(r.calls) : r.calls[j].api = "chat.update"}}

Independent(r, other) ==
    /\ \A u \in UpdatesOf(r) :
         /\ \E p \in PostsOf(r) : p.ts = u.ts /\ p.channel = u.channel
         /\ \A p \in PostsOf(other) : p.ts # u.ts
    /\ \A p \in PostsOf(r), q \in PostsOf(other) : p.ts # q.ts
    /\ r.invocations # <<>> => Cardinality(PostsOf(r)) = 1

\* C28: two submits of the same user in the same channel that race produce
\* two status messages: each run that gets past its post has posted a
\* running message of its own, and under every interleaving of their steps
\* no run updates the message that the other run posted.
C28_RacingSubmitsIndependent ==
    /\ Independent(run, racing)
    /\ Independent(racing, run)

\* both runs have ended, each with an update of its own message, the steps
\* of the second one lying between the post and the update of the first
C28_Witness ==
    /\ run.pc = "ended" /\ racing.pc = "ended"
    /\ \E u \in UpdatesOf(run), v \in UpdatesOf(racing) :
         /\ u.ts # v.ts
         /\ u.channel = v.channel
         /\ u.status = buildStatusBlocks("success")
         /\ v.status = buildStatusBlocks("failed")


\* the user whose record is the one that the README has the reader create,
\* and the actions of the deployed menu and forms
ReadmeUser == "dana"

ReadmeActions ==
    {WELCOME, SAMPLE_LAMBDA, SAMPLE_LAMBDA_SUBMIT, SAMPLE_SM, SAMPLE_SM_SUBMIT}

ReadmeRequest ==
    /\ event.entry = "sm"
    /\ event.body.user_name = ReadmeUser
    /\ event.body.channel_id = PermittedChannelId
    /\ boltVerifies(event, SigningSecret, nowMs)
    /\ ActionOf(event.body) \in ReadmeActions

\* C29: a request of the user configured as the README describes (record
\* with permittedActions "sample-lambda" and "sample-sm"), from the
\* configured channel and with a valid signature, is authorized by the
\* deployed stack for "welcome", "sample-lambda", "sample-lambda/submit",
\* "sample-sm" and "sample-sm/submit" and reaches the processor registered
\* for its action.
C29_ReadmeUserReachesProcessors ==
    (pc = "done" /\ ReadmeRequest) =>
        /\ dispatched
        /\ failedAt = "none"
        /\ \E p \in Processors :
             p.action = ActionOf(event.body) /\ p.handler \in triggered


\* b is the part of a before its first "/", the whole of a when it has none
PrefixToFirstSlash(b, a) ==
    /\ Len(b) <= Len(a)
    /\ SubSeq(a, 1, Len(b)) = b
    /\ \A i \in 1..Len(b) : b[i] # "/"
    /\ Len(b) = Len(a) \/ a[Len(b) + 1] = "/"

Normalized == requestDetails # NoDetails

\* C30: the action of a normalized request is never empty, and the
\* actionBase that parseRequest of slack-auth gives to an interactive
\* request is the prefix of the action up to its first "/" (the whole
\* action when it has none): "sample-lambda/submit" and "sample-lambda"
\* both have the actionBase "sample-lambda".
C30_ActionBaseIsPrefix ==
    Normalized =>
        /\ requestDetails.action # <<>>
        /\ (event.entry = "sm" /\ event.body.kind = "interactive") =>
              /\ requestDetails.action = event.body.action_id
              /\ PrefixToFirstSlash(requestDetails.actionBase, requestDetails.action)
              /\ requestDetails.action \in {SAMPLE_LAMBDA, SAMPLE_LAMBDA_SUBMIT} =>
                    requestDetails.actionBase = SAMPLE_LAMBDA

\* the submit of the sample function's form has been normalized
C30_Witness ==
    /\ Normalized
    /\ event.entry = "sm"
    /\ requestDetails.action = SAMPLE_LAMBDA_SUBMIT
    /\ requestDetails.actionBase = SAMPLE_LAMBDA
    /\ requestDetails.actionBase # requestDetails.action


C32_FailedOnlyIfJobFailed ==
    JobSucceeded =>
        \A i \in Updates : run.calls[i].status # buildStatusBlocks("failed")


\* the decisions of the two gates on an action and the entries of a record
InlineGate(action, entries) == verifyUserPermission(action, Rec("L", entries))

StepFunctionsGate(action, entries) ==
    \/ action = WELCOME
    \/ filterPermittedActions(Rec("SS", entries), actionBaseOf(action)) # {}

\* the request has reached the permission gate of its entry point, with a
\* record of the type that this entry point reads
AtPermissionGate ==
    /\ pc = "done"
    /\ Contains(trace, "user")
    /\ RecordOf(event).type = (IF event.entry = "sm" THEN "SS" ELSE "L")

\* C33: the gate of the inline handler and the gate of the state machine
\* make the same decision: whenever one of them has decided on an action
\* of a known user, the other one decides the same on that action and the
\* same permitted entries (stated for the actions of the menu and the
\* forms; on "welcome" the gates differ for an empty list only).
C33_GatesAgree ==
    (AtPermissionGate /\ ActionOf(event.body) # WELCOME) =>
        (Contains(trace, "permission") <=>
            IF event.entry = "sm"
            THEN InlineGate(ActionOf(event.body), RecordOf(event).vals)
            ELSE StepFunctionsGate(ActionOf(event.body), RecordOf(event).vals))


\* the action that the form for an action emits: value: `${action}/submit`
SubmitOf(action) == action \o <<"/", "submit">>

\* the decision of the gate of an entry point on an action and the record
\* as read
GateOf(entry, action, item) ==
    IF entry = "sm"
    THEN item.type = "SS" /\ StepFunctionsGate(action, item.vals)
    ELSE verifyUserPermission(action, item)

\* the handlers that an entry point has for an action
HandlersOf(entry, action) ==
    CASE entry = "inline" -> processCommand(action)
      [] entry = "bolt" ->
           {l.handler : l \in {m \in Listeners :
                                 listenerMatches(m, InteractiveBody("", "", action))}}
      [] entry = "sm" -> busTargets(CommandEvent([action |-> action]))

\* the request for a form has passed the permission gate
FormPermitted ==
    /\ pc = "done"
    /\ Contains(trace, "permission")
    /\ event.body.kind = "interactive"
    /\ ~IsSubmit(ActionOf(event.body))

\* C34: permission is closed under the step from a form to its submit: a
\* user whose request for the form of an action X has passed the gate is
\* also authorized, by the same gate and record, for the action
\* X + "/submit" that the form emits, and where X has a form handler the
\* submit action has a submit handler.
C34_FormToSubmitClosed ==
    FormPermitted =>
        LET X == ActionOf(event.body)
        IN  /\ GateOf(event.entry, SubmitOf(X), getUserResult)
            /\ (\E h \in HandlersOf(event.entry, X) : h.kind = "Form") =>
                  \E h \in HandlersOf(event.entry, SubmitOf(X)) :
                      h.kind = "Submit" /\ h.actionBase = X

\* the form of the sample state machine has been opened through the
\* validator, which has a submit processor for it
C34_Witness ==
    /\ FormPermitted
    /\ event.entry = "sm"
    /\ ActionOf(event.body) = SAMPLE_SM
    /\ dispatched
    /\ \E h \in HandlersOf("sm", SAMPLE_SM_SUBMIT) : h.kind = "Submit"


\* the posts of the running message that Slack did not accept
RefusedPosts == RunningPosts \ PostedRunning

\* C35: when the post of the "running" status message fails, the handling
\* of the submit ends there with an error: the job is not triggered, no
\* status update is issued and no further call follows the post.
C35_FailedPostEndsSubmit ==
    \A i \in RefusedPosts :
        /\ i = Len(run.calls)
        /\ run.invocations = <<>>
        /\ Updates = {}
        /\ run.serviceRequest = NoServiceRequest
        /\ run.pc = "ended" /\ run.end = "threw"

\* a submit processor whose running message Slack answered with ok: false
C35_Witness ==
    /\ run.impl = "processor"
    /\ RefusedPosts # {}
    /\ \E i \in RefusedPosts : run.calls[i].reply = "not_ok"
    /\ run.pc = "ended"
    /\ run.error = <<UpdateFailure>>


\* the ends of an execution of the RequestValidator
ExecutionEnded == pc = "done" /\ event.entry = "sm"

ExecutionFailed == response.kind = "execution" /\ response.body[1] = "FAILED"

SentUnauthorized ==
    \E i \in 1..Len(posts) : posts[i].text = UnauthorizedText /\ posts[i].ok

Outcomes ==
    {o \in {"bus", "unauthorized", "failed"} :
        \/ o = "bus" /\ dispatched
        \/ o = "unauthorized" /\ SentUnauthorized
        \/ o = "failed" /\ ExecutionFailed}

\* C36: every execution of the RequestValidator ends in exactly one of
\* three outcomes: the request is put on the command event bus, the
\* requester is sent the unauthorized message, or the execution fails; the
\* request put on the bus carries the permitted actions of its sender as
\* read, once, in that execution.
C36_ValidatorOutcomes ==
    ExecutionEnded =>
        /\ Cardinality(Outcomes) = 1
        /\ ~(dispatched /\ posts # <<>>)
        /\ dispatched =>
              /\ ddbReads = 1
              /\ getUserResult = lookup(event.body.user_name)
              /\ requestDetails.permittedActions = getUserResult.vals
              /\ requestDetails.permittedActions # {}

\* the three outcomes
C36_Witness ==
    /\ ExecutionEnded
    /\ Outcomes = {"bus"}
    /\ event.body.user_name = "omar"
    /\ requestDetails.permittedActions = {<<"other">>, SAMPLE_SFN}

C36_EndsWithDenialOrFailure ==
    ExecutionEnded /\ Outcomes = {"unauthorized"} /\ failedAt = "permission"


\* the invocations of slack-auth that ran with no other invocation of the
\* process in flight
Serial == {i \in Slots : proc.module = "slack-auth" /\ ~proc.inv[i].overlapped}

\* C37: in slack-auth, over the invocations that a process serves one after
\* the other, an invocation returns only when the Bolt response status is
\* 200, and then returns the details parsed from its own body; until its
\* own middleware has run the module variable holds no details (those of an
\* earlier invocation are gone), and an invocation whose response status is
\* not 200 throws.
C37_DetailsOfCurrentInvocation ==
    \A i \in Serial :
        /\ proc.inv[i].pc = "returned" =>
              /\ proc.inv[i].statusCode = 200
              /\ proc.inv[i].result # NoDetails
              /\ proc.inv[i].result = parseRequestSlackAuth(proc.inv[i].event.body)
        /\ proc.inv[i].pc \in {"initBolt", "configureApp", "start", "middleware"} =>
              proc.requestDetails = NoDetails
        /\ proc.inv[i].pc = "check" /\ proc.inv[i].statusCode = 200 =>
              proc.requestDetails = parseRequestSlackAuth(proc.inv[i].event.body)
        /\ proc.inv[i].statusCode \in {401, 404} =>
              /\ proc.inv[i].pc \in {"check", "threw"}
              /\ proc.inv[i].result = NoDetails
              /\ proc.inv[i].pc = "threw" => proc.inv[i].error = SlackAuthError

\* two invocations served one after the other have returned, each the
\* details of its own request, and the two differ
C37_Witness ==
    /\ proc.overlaps = 0
    /\ \E i \in Serial, j \in Serial :
         /\ proc.inv[i].pc = "returned"
         /\ proc.inv[j].pc = "returned"
         /\ proc.inv[i].event.body.kind = "interactive"
         /\ proc.inv[j].event.body.kind = "command"
         /\ proc.inv[i].result # proc.inv[j].result
         /\ proc.inv[j].result = parseRequestSlackAuth(proc.inv[j].event.body)

\* after an invocation that returned details, the next one is answered 401
\* and has thrown
C37_Rejected ==
    /\ proc.overlaps = 0
    /\ \E i \in Serial, j \in Serial :
         /\ proc.inv[i].pc = "returned"
         /\ proc.inv[j].pc = "threw"
         /\ proc.inv[j].statusCode = 401
         /\ proc.inv[j].error = SlackAuthError


\* no invocation of the process is under way
Quiescent == \A i \in Slots : ~InFlight(proc.inv[i])

\* C38: after any sequence of invocations in one process, those in which
\* initialization throws part-way included, the receiver being set implies
\* that the Bolt app is set, is bound to the receiver and has its
\* middleware registered (so that an initialization that failed is
\* attempted again by the next invocation, which tests the receiver alone).
C38_ReceiverImpliesApp ==
    (Quiescent /\ proc.overlaps = 0 /\ proc.awsLambdaReceiver # "null") =>
        /\ proc.app # "null"
        /\ proc.receiverApp
        /\ proc.middleware > 0

\* the invocation after one whose initialization threw between the two
\* assignments of initBolt has skipped the initialization and has thrown on
\* the 404 of a receiver that has no app
C38_NotAttemptedAgain ==
    /\ proc.overlaps = 0
    /\ proc.module = "slack-auth"
    /\ proc.served = 2
    /\ proc.initBolt = 0
    /\ proc.app = "null"
    /\ \E i \in Slots : /\ proc.inv[i].pc = "threw"
                        /\ proc.inv[i].statusCode = 404


\* the answers that the https-client function takes for an acceptance
Accepted(answer) ==
    \/ answer.kind = "string" /\ answer.text = "ok"
    \/ answer.kind = "object" /\ answer.ok

SecretRead(call) == call.secretResult \in {"ok", "no_token"}

\* the statement of C39 as made: every invocation performs exactly one
\* POST, returns only for an accepted answer and raises an error otherwise
C39_ExactlyOnePost ==
    \A i \in 1..Len(transport) :
        /\ transport[i].posts = 1
        /\ transport[i].outcome = "returned" => Accepted(transport[i].response)
        /\ ~Accepted(transport[i].response) => transport[i].outcome = "threw"

\* C39: an invocation of the https-client function performs one POST when
\* its secret read succeeds and none when the read fails; it returns
\* normally only when the remote answer is the string "ok" or carries a
\* truthy ok field; for every other answer, for a failed request and for a
\* failed secret read it raises an error, and the invoking task fails, so
\* that a rejected post or update is never reported as success.
C39_TransportReportsRejection ==
    \A i \in 1..Len(transport) :
        LET call == transport[i]
        IN  /\ call.posts = IF SecretRead(call) THEN 1 ELSE 0
            /\ call.outcome = "returned" <=>
                   (SecretRead(call) /\ Accepted(call.response))
            /\ call.outcome = "threw" <=> call.outcome # "returned"
            /\ call.outcome = "threw" => call.error # ""
            /\ call.task = "TaskSucceeded" <=> call.outcome = "returned"

\* an accepted post, a post that Slack answered with ok: false, and an
\* invocation whose secret read failed
C39_Witness ==
    /\ Len(transport) = 3
    /\ transport[1].outcome = "returned" /\ transport[1].response.kind = "object"
    /\ transport[2].response = [kind |-> "object", text |-> "", ok |-> FALSE]
    /\ transport[2].posts = 1 /\ transport[2].task = "TaskFailed"
    /\ transport[3].secretResult = "fetch_failed"
    /\ transport[3].posts = 0 /\ transport[3].outcome = "threw"

====
